---- MODULE Spec2Model ----
(***************************************************************************)
(* dotp: the encrypted vault (src/src/dotp/vault.py), its crypto layer     *)
(* (src/src/dotp/crypto.py) and the commands init, add and import of       *)
(* src/src/dotp/cli.py.                                                    *)
(*                                                                         *)
(* Python str values are sequences of code points (65 = "A", 97 = "a",     *)
(* 37 = "%", 52 = "4", 49 = "1", 50 = "2", 53 = "5", 34 = the double       *)
(* quote, 92 = the backslash).  Dictionary keys are TLA+ strings.          *)
(***************************************************************************)
EXTENDS Integers, Sequences, FiniteSets, TLC

VARIABLES
    entries,   \* Vault._entries of the current Vault instance
    file,      \* content of vault_path: NoFile or [salt, token]
    written,   \* history: who wrote the file last, with which password and list
    last,      \* history: the last call, its arguments, result and error
    cr,        \* crypto.py exercised alone: the message, the token, the result
    pf,        \* a function called on its own: its name, argument and result
    held,      \* the list a caller got from list_entries and kept
    hist,      \* history: the file before the last call, what the instance did
    cli,       \* the last cli.py command: its arguments, outcome and exit code
    tui,       \* the TUI: whether it runs, its password, table rows, last action
    rng,       \* os.urandom: the salts drawn; the salts the file held; the calls
    peer       \* a second Vault instance on the same path, in another process

vars == <<entries, file, written, last, cr, pf, held, hist, cli, tui, rng, peer>>

\* ------------------------------------------------------------------ bounds

\* Longest entry list built by add_entry.
MaxEntries == 2

\* ----------------------------------------------------------- str helpers

\* str.lower() on one code point (ASCII range).
LowerChar(c) == IF c >= 65 /\ c <= 90 THEN c + 32 ELSE c

\* str.lower()
Lower(s) == [i \in 1..Len(s) |-> LowerChar(s[i])]

\* s.startswith(p)
StartsWith(s, p) == Len(p) <= Len(s) /\ SubSeq(s, 1, Len(p)) = p

\* p in s (substring test)
Contains(s, p) ==
    \E i \in 0..(Len(s) - Len(p)) : SubSeq(s, i + 1, i + Len(p)) = p

\* Value of a hexadecimal digit, -1 for any other character.
HexVal(c) ==
    IF c >= 48 /\ c <= 57 THEN c - 48
    ELSE IF c >= 97 /\ c <= 102 THEN c - 87
    ELSE IF c >= 65 /\ c <= 70 THEN c - 55
    ELSE -1

\* Lower-case hexadecimal digit of n in 0..15.
HexDigit(n) == IF n < 10 THEN 48 + n ELSE 87 + n

\* One decoded byte as text: ASCII bytes are themselves; a byte >= 128 that is
\* not part of a valid UTF-8 sequence is replaced by U+FFFD (errors="replace").
\* Multi-byte UTF-8 sequences do not occur in the labels used here.
DecodeByte(b) == IF b < 128 THEN b ELSE 65533

\* urllib.parse.unquote: "%" followed by two hexadecimal digits becomes the
\* byte they name; any other "%" stays.  One pass, left to right, so the
\* output of a decoded escape is never decoded again.
RECURSIVE Unquote(_)
Unquote(s) ==
    IF s = <<>> THEN <<>>
    ELSE IF /\ Head(s) = 37
            /\ Len(s) >= 3
            /\ HexVal(s[2]) >= 0
            /\ HexVal(s[3]) >= 0
         THEN <<DecodeByte(16 * HexVal(s[2]) + HexVal(s[3]))>>
                  \o Unquote(SubSeq(s, 4, Len(s)))
         ELSE <<Head(s)>> \o Unquote(Tail(s))

\* ------------------------------------------------------------ Entry model

\* TOTPEntry: the dataclass fields in declaration order.
Fields == <<"label", "secret", "digits", "algorithm", "period">>

FieldSet == {Fields[i] : i \in 1..Len(Fields)}

\* The fields without a default value.
RequiredFields == {"label", "secret"}

\* Python values as they travel through dicts and JSON, tagged by type.
PyStr(s) == [t |-> "str", s |-> s]
PyInt(n) == [t |-> "int", n |-> n]
PyList(items) == [t |-> "list", items |-> items]
PyDict(d) == [t |-> "dict", d |-> d]

\* The value a field holds once the tag is dropped (values are kept as-is).
Untag(v) ==
    IF v.t = "str" THEN v.s
    ELSE IF v.t = "int" THEN v.n
    ELSE v

\* Default values of the optional fields: 6, "SHA1", 30.
FieldDefault(f) ==
    IF f = "digits" THEN 6
    ELSE IF f = "algorithm" THEN <<83, 72, 65, 49>>
    ELSE 30

\* TOTPEntry(label, secret, digits=6, algorithm="SHA1", period=30)
TOTPEntry(label, secret, digits, algorithm, period) ==
    [label |-> label, secret |-> secret, digits |-> digits,
     algorithm |-> algorithm, period |-> period]

\* TOTPEntry.to_dict: asdict(self), a dict with the five fields.
\* Faulty variant: the last field is left out of the dict.
to_dictDropsPeriod(e) ==
    PyDict([f \in FieldSet \ {"period"} |->
               IF f = "digits" THEN PyInt(e[f]) ELSE PyStr(e[f])])

to_dict(e) ==
    PyDict([f \in FieldSet |->
               IF f \in {"digits", "period"} THEN PyInt(e[f]) ELSE PyStr(e[f])])

\* Faulty variant: keys that are no fields are dropped before the call.
FromDictErrorIgnoresUnknown(v) ==
    IF v.t # "dict" THEN "TypeError"
    ELSE IF ~(RequiredFields \subseteq DOMAIN v.d) THEN "TypeError"
    ELSE "none"

\* TOTPEntry.from_dict: cls(**data).  A non-mapping argument, a key that is
\* no field, or a missing required field raise TypeError.
FromDictError(v) ==
    IF v.t # "dict" THEN "TypeError"
    ELSE IF ~(DOMAIN v.d \subseteq FieldSet) THEN "TypeError"
    ELSE IF ~(RequiredFields \subseteq DOMAIN v.d) THEN "TypeError"
    ELSE "none"

\* Faulty variant: the period of the record is not taken over.
from_dictDefaultPeriod(v) ==
    [f \in FieldSet |->
        IF f \in DOMAIN v.d /\ f # "period" THEN Untag(v.d[f])
        ELSE FieldDefault(f)]

from_dict(v) ==
    [f \in FieldSet |->
        IF f \in DOMAIN v.d THEN Untag(v.d[f]) ELSE FieldDefault(f)]

\* ------------------------------------------------------------------- JSON

\* JSON text is kept as its syntax tree; string literals hold the escaped
\* characters as json.dumps writes them.  A text that is no JSON document
\* is [t |-> "invalid"].
JString(lit) == [t |-> "string", lit |-> lit]
JNumber(n) == [t |-> "number", n |-> n]
JArray(items) == [t |-> "array", items |-> items]
JObject(members) == [t |-> "object", members |-> members]
JMember(k, v) == [k |-> k, v |-> v]
JInvalid == [t |-> "invalid"]

\* \uXXXX escape of a code point below 65536.
UEscape(c) ==
    <<92, 117, HexDigit(c \div 4096), HexDigit((c \div 256) % 16),
      HexDigit((c \div 16) % 16), HexDigit(c % 16)>>

\* json.dumps (ensure_ascii) on one character.
EscapeChar(c) ==
    IF c = 34 THEN <<92, 34>>
    ELSE IF c = 92 THEN <<92, 92>>
    ELSE IF c = 10 THEN <<92, 110>>
    ELSE IF c = 13 THEN <<92, 114>>
    ELSE IF c = 9 THEN <<92, 116>>
    ELSE IF c = 8 THEN <<92, 98>>
    ELSE IF c = 12 THEN <<92, 102>>
    ELSE IF c >= 32 /\ c <= 126 THEN <<c>>
    ELSE UEscape(c)

\* The body of the string literal json.dumps writes for s.
RECURSIVE JsonEscape(_)
JsonEscape(s) ==
    IF s = <<>> THEN <<>> ELSE EscapeChar(Head(s)) \o JsonEscape(Tail(s))

\* The character a one-letter escape stands for.
UnescapeLetter(c) ==
    IF c = 110 THEN 10
    ELSE IF c = 114 THEN 13
    ELSE IF c = 116 THEN 9
    ELSE IF c = 98 THEN 8
    ELSE IF c = 102 THEN 12
    ELSE c

\* json.loads on the body of a string literal.
RECURSIVE JsonUnescape(_)
JsonUnescape(lit) ==
    IF lit = <<>> THEN <<>>
    ELSE IF Head(lit) = 92 /\ Len(lit) >= 6 /\ lit[2] = 117
         THEN <<4096 * HexVal(lit[3]) + 256 * HexVal(lit[4])
                   + 16 * HexVal(lit[5]) + HexVal(lit[6])>>
                  \o JsonUnescape(SubSeq(lit, 7, Len(lit)))
    ELSE IF Head(lit) = 92 /\ Len(lit) >= 2
         THEN <<UnescapeLetter(lit[2])>> \o JsonUnescape(SubSeq(lit, 3, Len(lit)))
    ELSE <<Head(lit)>> \o JsonUnescape(Tail(lit))

\* json.dumps of one entry dict: the members in the dict's (field) order.
DumpsEntry(d) ==
    LET present == SelectSeq(Fields, LAMBDA f : f \in DOMAIN d.d)
    IN  JObject([i \in 1..Len(present) |->
            LET v == d.d[present[i]]
            IN  JMember(present[i],
                        IF v.t = "int" THEN JNumber(v.n)
                        ELSE JString(JsonEscape(v.s)))])

\* json.dumps({"entries": [entry.to_dict() for entry in self._entries]})
DumpsVault(list) ==
    JObject(<<JMember("entries",
                      JArray([i \in 1..Len(list) |-> DumpsEntry(to_dict(list[i]))]))>>)

\* json.loads on a well-formed document.  A repeated key keeps its last value.
RECURSIVE Loads(_)
Loads(j) ==
    IF j.t = "string" THEN PyStr(JsonUnescape(j.lit))
    ELSE IF j.t = "number" THEN PyInt(j.n)
    ELSE IF j.t = "array"
         THEN PyList([i \in 1..Len(j.items) |-> Loads(j.items[i])])
    ELSE LET ms == j.members
             keys == {ms[i].k : i \in 1..Len(ms)}
             lastOf(k) == CHOOSE i \in 1..Len(ms) :
                             /\ ms[i].k = k
                             /\ \A n \in 1..Len(ms) : ms[n].k = k => n <= i
         IN  PyDict([k \in keys |-> Loads(ms[lastOf(k)].v)])

\* ----------------------------------------------------------------- crypto

Passwords == {"123456", "654321"}

\* os.urandom(16) in encrypt_data: the salts it may return.
Salts == {"salt1", "salt2"}

\* os.urandom(16) inside Fernet.encrypt: the IVs it may return.
IVs == {"iv1", "iv2"}

\* int(time.time()) inside Fernet.encrypt.
Times == {1700000000, 1700000030}

\* The iv and the clock of the writes of the persistence specification.
StoreIVs == {"iv1"}
StoreTimes == {1700000000}

\* derive_key: PBKDF2-HMAC-SHA256 of the password under the salt, taken as
\* collision free: the key names the pair it was derived from.
\* Faulty variant: the key is derived from the salt alone.
derive_keyIgnoresPassword(password, salt) == [pw |-> "", salt |-> salt]

derive_key(password, salt) == [pw |-> password, salt |-> salt]

\* AES-128-CBC of the padded plaintext; x = 0 marks the bytes the cipher
\* produced, any other x the same bytes altered.
AesCbc(key, iv, pt) == [key |-> key, iv |-> iv, pt |-> pt, x |-> 0]

\* HMAC-SHA256 over version || timestamp || iv || ciphertext.
Hmac(key, ver, ts, iv, ct) ==
    [key |-> key, ver |-> ver, ts |-> ts, iv |-> iv, ct |-> ct, x |-> 0]

\* Fernet(key).encrypt(data): urlsafe base64 of version (0x80), timestamp,
\* iv, ciphertext and HMAC.  junk counts the characters of the token text
\* that are outside the base64 alphabet (none as written).
FernetEncrypt(key, data, iv, now) ==
    LET ct == AesCbc(key, iv, data)
    IN  [ver |-> 128, ts |-> now, iv |-> iv, ct |-> ct,
         mac |-> Hmac(key, 128, now, iv, ct), junk |-> 0]

\* Fernet(key).decrypt(token), no ttl: base64.urlsafe_b64decode discards the
\* characters outside the alphabet; then the version byte and the HMAC are
\* checked, and the ciphertext is decrypted and unpadded.
FernetDecrypt(key, tok) ==
    IF tok.ver # 128 THEN [err |-> "InvalidToken", data |-> JInvalid]
    ELSE IF tok.mac # Hmac(key, tok.ver, tok.ts, tok.iv, tok.ct)
         THEN [err |-> "InvalidToken", data |-> JInvalid]
    ELSE IF tok.ct.key # key \/ tok.ct.iv # tok.iv \/ tok.ct.x # 0
         THEN [err |-> "InvalidToken", data |-> JInvalid]
    ELSE [err |-> "none", data |-> tok.ct.pt]

\* A str that is no JSON text, as its code points.
Text(s) == [t |-> "text", s |-> s]

\* The UTF-8 bytes of one code point (no surrogate).
Utf8Char(c) ==
    IF c < 128 THEN <<c>>
    ELSE IF c < 2048 THEN <<192 + (c \div 64), 128 + (c % 64)>>
    ELSE IF c < 65536
         THEN <<224 + (c \div 4096), 128 + ((c \div 64) % 64), 128 + (c % 64)>>
    ELSE <<240 + (c \div 262144), 128 + ((c \div 4096) % 64),
           128 + ((c \div 64) % 64), 128 + (c % 64)>>

\* Faulty variant: one byte per code point, the low eight bits.
Utf8EncodeLowByte(s) == [i \in 1..Len(s) |-> s[i] % 256]

\* str.encode(): the UTF-8 bytes of the code points of s.
RECURSIVE Utf8Encode(_)
Utf8Encode(s) ==
    IF s = <<>> THEN <<>> ELSE Utf8Char(Head(s)) \o Utf8Encode(Tail(s))

\* Bytes a UTF-8 sequence starting with lead byte b takes; 0 when b starts none.
Utf8Width(b) ==
    IF b < 128 THEN 1
    ELSE IF b >= 194 /\ b < 224 THEN 2
    ELSE IF b >= 224 /\ b < 240 THEN 3
    ELSE IF b >= 240 /\ b < 245 THEN 4
    ELSE 0

\* The continuation bytes of a sequence carry 10xxxxxx.
IsCont(b) == b >= 128 /\ b < 192

\* bytes.decode() raises UnicodeDecodeError unless every sequence is complete.
RECURSIVE Utf8Valid(_)
Utf8Valid(b) ==
    IF b = <<>> THEN TRUE
    ELSE LET w == Utf8Width(Head(b))
         IN  /\ w > 0
             /\ Len(b) >= w
             /\ \A i \in 2..w : IsCont(b[i])
             /\ Utf8Valid(SubSeq(b, w + 1, Len(b)))

\* The code point of the sequence of w bytes at the head of b.
Utf8Point(b, w) ==
    IF w = 1 THEN b[1]
    ELSE IF w = 2 THEN (b[1] - 192) * 64 + (b[2] - 128)
    ELSE IF w = 3
         THEN (b[1] - 224) * 4096 + (b[2] - 128) * 64 + (b[3] - 128)
    ELSE (b[1] - 240) * 262144 + (b[2] - 128) * 4096
             + (b[3] - 128) * 64 + (b[4] - 128)

\* bytes.decode() of valid UTF-8: the code points.
RECURSIVE Utf8Decode(_)
Utf8Decode(b) ==
    IF b = <<>> THEN <<>>
    ELSE LET w == Utf8Width(Head(b))
         IN  <<Utf8Point(b, w)>> \o Utf8Decode(SubSeq(b, w + 1, Len(b)))

\* data.encode(): a JSON text written by json.dumps is ASCII and stands for
\* its own bytes; any other str is encoded code point by code point.
Encode(data) ==
    IF data.t = "text" THEN [t |-> "bytes", b |-> Utf8Encode(data.s)]
    ELSE data

\* decrypted.decode()
Decode(pt) ==
    IF pt.t # "bytes" THEN [err |-> "none", data |-> pt]
    ELSE IF ~Utf8Valid(pt.b)
         THEN [err |-> "UnicodeDecodeError", data |-> JInvalid]
    ELSE [err |-> "none", data |-> Text(Utf8Decode(pt.b))]

\* Faulty variant: the salt is a constant of the module, not a draw.
encrypt_dataFixedSalt(data, password, salt, iv, now) ==
    [encrypted |-> FernetEncrypt(derive_key(password, 0), Encode(data), iv, now),
     salt |-> 0]

\* encrypt_data(data, password), with the random salt and Fernet's iv and
\* clock as inputs.
encrypt_data(data, password, salt, iv, now) ==
    [encrypted |-> FernetEncrypt(derive_key(password, salt), Encode(data),
                                 iv, now),
     salt |-> salt]

\* decrypt_data(encrypted_data, password, salt)
decrypt_data(encrypted, password, salt) ==
    LET decrypted == FernetDecrypt(derive_key(password, salt), encrypted)
    IN  IF decrypted.err # "none" THEN decrypted ELSE Decode(decrypted.data)

\* ------------------------------------------------------------------ Vault

\* The call record kept in last.
Call(op, pw, q, err, found, ret, pre) ==
    [op |-> op, pw |-> pw, q |-> q, err |-> err, found |-> found,
     ret |-> ret, pre |-> pre]

\* The record kept in written: the writer, its password, the entry list the
\* payload stands for, the payload text and the random inputs of the write.
Writer(by, pw, list, data, salt, iv, now) ==
    [by |-> by, pw |-> pw, list |-> list, data |-> data, salt |-> salt,
     iv |-> iv, now |-> now]

\* salt + encrypted, as written by write_bytes: the first 16 bytes and the rest.
VaultData(enc) == <<[salt |-> enc.salt, token |-> enc.encrypted]>>

\* Faulty variant: the new instance starts with the list of the one before.
NewVaultSharesList ==
    /\ entries' = entries
    /\ last' = Call("init", "", <<>>, "none", FALSE, <<>>, entries)
    /\ UNCHANGED <<file, written, cr>>

\* Vault.__init__: a new instance bound to the same path.
NewVault ==
    /\ entries' = <<>>
    /\ last' = Call("init", "", <<>>, "none", FALSE, <<>>, entries)
    /\ UNCHANGED <<file, written, cr>>

\* Faulty variant: the entries in memory are written instead of an empty list.
CreateWritesEntries(password, salt, iv, now) ==
    /\ file' = VaultData(encrypt_data(DumpsVault(entries), password, salt, iv, now))
    /\ written' = Writer("create", password, entries, DumpsVault(entries),
                         salt, iv, now)
    /\ last' = Call("create", password, <<>>, "none", FALSE, <<>>, entries)
    /\ UNCHANGED <<entries, cr>>

\* Faulty variant: a file that exists is left as it is.
CreateKeepsExisting(password, salt, iv, now) ==
    /\ file' = IF file = <<>>
               THEN VaultData(encrypt_data(DumpsVault(<<>>), password, salt, iv, now))
               ELSE file
    /\ written' = IF file = <<>>
                  THEN Writer("create", password, <<>>, DumpsVault(<<>>),
                              salt, iv, now)
                  ELSE written
    /\ last' = Call("create", password, <<>>, "none", FALSE, <<>>, entries)
    /\ UNCHANGED <<entries, cr>>

\* Vault.create
\* Faulty variant: create also empties the list of the instance.
CreateClearsEntries(password, salt, iv, now) ==
    /\ file' = VaultData(encrypt_data(DumpsVault(<<>>), password, salt, iv, now))
    /\ written' = Writer("create", password, <<>>, DumpsVault(<<>>), salt, iv, now)
    /\ last' = Call("create", password, <<>>, "none", FALSE, <<>>, entries)
    /\ entries' = <<>>
    /\ UNCHANGED cr

Create(password, salt, iv, now) ==
    /\ file' = VaultData(encrypt_data(DumpsVault(<<>>), password, salt, iv, now))
    /\ written' = Writer("create", password, <<>>, DumpsVault(<<>>), salt, iv, now)
    /\ last' = Call("create", password, <<>>, "none", FALSE, <<>>, entries)
    /\ UNCHANGED <<entries, cr>>

\* Faulty variant: records that from_dict rejects are skipped.
EntriesOfSkipsBad(v) ==
    IF v.t # "list" THEN [err |-> "TypeError", list |-> <<>>]
    ELSE LET good == SelectSeq(v.items, LAMBDA x : FromDictError(x) = "none")
         IN  [err |-> "none", list |-> [i \in 1..Len(good) |-> from_dict(good[i])]]

\* The list comprehension of load: from_dict on each element of
\* data["entries"], in order; the first error ends it.
EntriesOf(v) ==
    IF v.t = "int" THEN [err |-> "TypeError", list |-> <<>>]
    ELSE IF v.t = "str"
         THEN [err |-> IF v.s = <<>> THEN "none" ELSE "TypeError", list |-> <<>>]
    ELSE IF v.t = "dict"
         THEN [err |-> IF DOMAIN v.d = {} THEN "none" ELSE "TypeError",
               list |-> <<>>]
    ELSE IF \E i \in 1..Len(v.items) : FromDictError(v.items[i]) # "none"
         THEN [err |-> "TypeError", list |-> <<>>]
    ELSE [err |-> "none",
          list |-> [i \in 1..Len(v.items) |-> from_dict(v.items[i])]]

\* Vault.load after read_bytes, up to the assignment: the error raised, or
\* the list built.
DecodeVault(f, password) ==
    LET dec == decrypt_data(f[1].token, password, f[1].salt)
    IN  IF dec.err # "none" THEN [err |-> dec.err, list |-> <<>>]
        ELSE IF dec.data.t \in {"invalid", "text"}
             THEN [err |-> "JSONDecodeError", list |-> <<>>]
        ELSE LET data == Loads(dec.data)
             IN  IF data.t # "dict"
                 THEN [err |-> "TypeError", list |-> <<>>]
                 ELSE IF "entries" \notin DOMAIN data.d
                      THEN [err |-> "KeyError", list |-> <<>>]
                 ELSE EntriesOf(data.d["entries"])

\* Faulty variant: a missing file is read as an empty vault.
ReadVaultMissingIsEmpty(f, password) ==
    IF f = <<>> THEN [err |-> "none", list |-> <<>>]
    ELSE DecodeVault(f, password)

\* Vault.load up to the assignment: the existence check comes first, and
\* nothing is read or decrypted when it fails.
ReadVault(f, password) ==
    IF f = <<>> THEN [err |-> "FileNotFoundError", list |-> <<>>]
    ELSE DecodeVault(f, password)

\* Faulty variant: the entries are cleared before the file is read.
LoadResultClearsFirst(f, password, cur) ==
    LET r == ReadVault(f, password)
    IN  [err |-> r.err, entries |-> r.list]

\* Faulty variant: the loaded entries are appended to the ones in memory.
LoadResultExtends(f, password, cur) ==
    LET r == ReadVault(f, password)
    IN  [err |-> r.err, entries |-> IF r.err = "none" THEN cur \o r.list ELSE cur]

\* Vault.load: the error raised and the value of self._entries afterwards;
\* the assignment is the last statement, reached only without an error.
LoadResult(f, password, cur) ==
    LET r == ReadVault(f, password)
    IN  [err |-> r.err, entries |-> IF r.err = "none" THEN r.list ELSE cur]

Load(password) ==
    LET r == LoadResult(file, password, entries)
    IN  /\ entries' = r.entries
        /\ last' = Call("load", password, <<>>, r.err, FALSE, <<>>, entries)
        /\ UNCHANGED <<file, written, cr>>

\* Vault.save
\* Faulty variant: save encrypts under the password the file was written
\* with, when there is one, and not under the one passed.
SaveUnderOldPassword(password, salt, iv, now) ==
    LET used == IF written.by = "none" THEN password ELSE written.pw
    IN  /\ file' = VaultData(encrypt_data(DumpsVault(entries), used, salt, iv, now))
        /\ written' = Writer("save", password, entries, DumpsVault(entries),
                             salt, iv, now)
        /\ last' = Call("save", password, <<>>, "none", FALSE, <<>>, entries)
        /\ UNCHANGED <<entries, cr>>

\* Faulty variant: save writes the entries of the file followed by its own.
SaveMerges(password, salt, iv, now) ==
    LET kept == IF file = <<>> THEN <<>> ELSE DecodeVault(file, password).list
        merged == kept \o entries
    IN  /\ file' = VaultData(encrypt_data(DumpsVault(merged), password, salt,
                                           iv, now))
        /\ written' = Writer("save", password, entries, DumpsVault(merged),
                             salt, iv, now)
        /\ last' = Call("save", password, <<>>, "none", FALSE, <<>>, entries)
        /\ UNCHANGED <<entries, cr>>

\* Faulty variant: save encrypts under the salt of the file it overwrites.
SaveKeepsSalt(password, salt, iv, now) ==
    LET used == IF file = <<>> THEN salt ELSE file[1].salt
    IN  /\ file' = VaultData(encrypt_data(DumpsVault(entries), password, used,
                                           iv, now))
        /\ written' = Writer("save", password, entries, DumpsVault(entries),
                             used, iv, now)
        /\ last' = Call("save", password, <<>>, "none", FALSE, <<>>, entries)
        /\ UNCHANGED <<entries, cr>>

Save(password, salt, iv, now) ==
    /\ file' = VaultData(encrypt_data(DumpsVault(entries), password, salt, iv, now))
    /\ written' = Writer("save", password, entries, DumpsVault(entries), salt, iv, now)
    /\ last' = Call("save", password, <<>>, "none", FALSE, <<>>, entries)
    /\ UNCHANGED <<entries, cr>>

\* Faulty variant: add_entry saves the list under the password of the last
\* writer.
AddEntryWritesThrough(e) ==
    /\ Len(entries) < MaxEntries
    /\ entries' = Append(entries, e)
    /\ file' = IF file = <<>> THEN file
               ELSE VaultData(encrypt_data(DumpsVault(Append(entries, e)),
                                           written.pw, "salt2", "iv2", 1700000030))
    /\ last' = Call("add_entry", "", e.label, "none", FALSE, <<e>>, entries)
    /\ UNCHANGED <<written, cr>>

\* Faulty variant: an entry whose label is already stored is not appended.
AddEntryUnique(e) ==
    /\ Len(entries) < MaxEntries
    /\ entries' = IF \E i \in 1..Len(entries) : entries[i].label = e.label
                  THEN entries
                  ELSE Append(entries, e)
    /\ last' = Call("add_entry", "", e.label, "none", FALSE, <<e>>, entries)
    /\ UNCHANGED <<file, written, cr>>

\* Vault.add_entry; the guard only keeps the list within MaxEntries.
AddEntry(e) ==
    /\ Len(entries) < MaxEntries
    /\ entries' = Append(entries, e)
    /\ last' = Call("add_entry", "", e.label, "none", FALSE, <<e>>, entries)
    /\ UNCHANGED <<file, written, cr>>

\* The loops over self._entries that return at the first match: the least
\* of the matching positions, 0 when the loop runs to its end.
FirstIndex(hits) ==
    IF hits = {} THEN 0 ELSE CHOOSE i \in hits : \A n \in hits : i <= n

\* Optional[TOTPEntry]: <<>> is None, <<e>> an entry.
Found(list, i) == IF i = 0 THEN <<>> ELSE <<list[i]>>

\* Faulty variant: the stored labels are compared without percent-decoding.
ExactMatchRaw(list, label) ==
    Found(list, FirstIndex({i \in 1..Len(list) :
                                Lower(list[i].label) = Lower(label)}))

\* Vault.get_entry_exact: the value returned.
ExactMatch(list, label) ==
    LET label_lower == Lower(label)
    IN  Found(list, FirstIndex({i \in 1..Len(list) :
                                    Lower(Unquote(list[i].label)) = label_lower}))

\* Faulty variant: one pass that takes the first prefix match.
EntryMatchPrefixFirst(list, label) ==
    Found(list, FirstIndex({i \in 1..Len(list) :
               StartsWith(Lower(Unquote(list[i].label)), Lower(label))}))

\* Faulty variant: no prefix fallback.
EntryMatchExactOnly(list, label) == ExactMatch(list, label)

\* Vault.get_entry: the value returned.
EntryMatch(list, label) ==
    LET label_lower == Lower(label)
        exact_match == ExactMatch(list, label)
    IN  IF exact_match # <<>> THEN exact_match
        ELSE Found(list, FirstIndex({i \in 1..Len(list) :
                 StartsWith(Lower(Unquote(list[i].label)), label_lower)}))

\* Faulty variant: the stored labels are percent-decoded, as in get_entry_exact.
RemoveIndexDecoded(list, label) ==
    FirstIndex({i \in 1..Len(list) : Lower(Unquote(list[i].label)) = Lower(label)})

\* Vault.remove_entry: the index popped (from 1), 0 when nothing matches.
RemoveIndex(list, label) ==
    FirstIndex({i \in 1..Len(list) : Lower(list[i].label) = Lower(label)})

\* list.pop(i)
Pop(list, i) == SubSeq(list, 1, i - 1) \o SubSeq(list, i + 1, Len(list))

\* Faulty variant: the query must start the label.
SearchResultPrefix(list, query) ==
    SelectSeq(list, LAMBDA entry : StartsWith(Lower(entry.label), Lower(query)))

\* Vault.search_entries: the value returned.
SearchResult(list, query) ==
    LET query_lower == Lower(query)
    IN  SelectSeq(list, LAMBDA entry : Contains(Lower(entry.label), query_lower))

GetEntryExact(label) ==
    /\ last' = Call("get_entry_exact", "", label, "none", FALSE,
                    ExactMatch(entries, label), entries)
    /\ UNCHANGED <<entries, file, written, cr>>

GetEntry(label) ==
    /\ last' = Call("get_entry", "", label, "none", FALSE,
                    EntryMatch(entries, label), entries)
    /\ UNCHANGED <<entries, file, written, cr>>

\* Vault.list_entries
ListEntries ==
    /\ last' = Call("list_entries", "", <<>>, "none", FALSE, entries, entries)
    /\ UNCHANGED <<entries, file, written, cr>>

RemoveEntry(label) ==
    LET i == RemoveIndex(entries, label)
    IN  /\ entries' = IF i = 0 THEN entries ELSE Pop(entries, i)
        /\ last' = Call("remove_entry", "", label, "none", i # 0, <<>>, entries)
        /\ UNCHANGED <<file, written, cr>>

SearchEntries(query) ==
    /\ last' = Call("search_entries", "", query, "none", FALSE,
                    SearchResult(entries, query), entries)
    /\ UNCHANGED <<entries, file, written, cr>>

\* The vault file as another program holding the password may have written
\* it: salt + Fernet token of an arbitrary payload.
ExternalWrite(input, password, salt, iv, now) ==
    /\ file' = VaultData(encrypt_data(input.data, password, salt, iv, now))
    /\ written' = Writer(input.kind, password, input.list, input.data, salt, iv, now)
    /\ last' = Call("external", password, <<>>, "none", FALSE, <<>>, entries)
    /\ UNCHANGED <<entries, cr>>

\* ----------------------------------------------------------------- inputs

SHA1 == <<83, 72, 65, 49>>
SHA256 == <<83, 72, 65, 50, 53, 54>>

\* Entries added in the persistence specification: a plain label, a label
\* with a backslash ("a\t" spelled with a backslash, not a tab) and a
\* percent-encoded label ("%41"); a secret with a double quote.
StoreEntries ==
    { TOTPEntry(<<65>>, <<74, 66>>, 6, SHA1, 30),
      TOTPEntry(<<97, 92, 116>>, <<77, 34>>, 8, SHA256, 60),
      TOTPEntry(<<37, 52, 49>>, <<74, 66>>, 6, SHA1, 30) }

\* Labels asked for in the persistence specification: "a", "A\t" (with a
\* backslash), "%41".
StoreQueries == { <<97>>, <<65, 92, 116>>, <<37, 52, 49>> }

\* Labels of the lookup specification:
\*   "A4", "a4", "%414" (decodes to "A4"), "A41", "%41" (decodes to "A"),
\*   "%2541" (decodes to "%41"), "1a4", "".
LookupLabels ==
    { <<65, 52>>, <<97, 52>>, <<37, 52, 49, 52>>, <<65, 52, 49>>,
      <<37, 52, 49>>, <<37, 50, 53, 52, 49>>, <<49, 97, 52>>, <<>> }

\* One entry per label.
LookupEntries == { TOTPEntry(l, <<74, 66>>, 6, SHA1, 30) : l \in LookupLabels }

\* Queries of the lookup specification:
\*   "A4", "%414", "%41", "A41", "A", "a", "4", "B", "".
LookupQueries ==
    { <<65, 52>>, <<37, 52, 49, 52>>, <<37, 52, 49>>, <<65, 52, 49>>,
      <<65>>, <<97>>, <<52>>, <<66>>, <<>> }

\* One record as another writer may spell it.
JRecord(label, secret) ==
    JObject(<<JMember("label", JString(label)), JMember("secret", JString(secret))>>)

\* Payloads of ExternalWrite, each with the entry list it stands for:
\* text that is no JSON; an object without "entries"; a list of records
\* whose second lacks the secret; whose first lacks the label; a top-level
\* array; a record with a key that is no field; a record with only label and
\* secret.
ExternalInputs ==
    { [kind |-> "not_json", data |-> JInvalid, list |-> <<>>],
      [kind |-> "no_entries", data |-> JObject(<<JMember("version", JNumber(1))>>),
       list |-> <<>>],
      [kind |-> "missing_field",
       data |-> JObject(<<JMember("entries", JArray(<<
                   JRecord(<<65>>, <<74, 66>>),
                   JObject(<<JMember("label", JString(<<97>>))>>) >>))>>),
       list |-> <<>>],
      [kind |-> "missing_field",
       data |-> JObject(<<JMember("entries", JArray(<<
                   JObject(<<JMember("secret", JString(<<74, 66>>))>>),
                   JRecord(<<65>>, <<74, 66>>) >>))>>),
       list |-> <<>>],
      [kind |-> "not_object", data |-> JArray(<<>>), list |-> <<>>],
      [kind |-> "extra_key",
       data |-> JObject(<<JMember("entries", JArray(<<
                   JObject(<<JMember("label", JString(<<65>>)),
                             JMember("secret", JString(<<74, 66>>)),
                             JMember("issuer", JString(<<65>>))>>) >>))>>),
       list |-> <<>>],
      [kind |-> "valid",
       data |-> JObject(<<JMember("entries", JArray(<<
                   JRecord(<<65, 92, 117, 48, 48, 52, 49>>, <<74, 66>>) >>))>>),
       list |-> <<TOTPEntry(<<65, 65>>, <<74, 66>>, 6, SHA1, 30)>>] }

\* ---------------------------------------------------------- specifications

NoCall == Call("init", "", <<>>, "none", FALSE, <<>>, <<>>)

NoWriter == Writer("none", "", <<>>, JInvalid, "", "", 0)

CrIdle ==
    [stage |-> "idle", data |-> JInvalid, pw |-> "", salt |-> "", tok |-> <<>>,
     orig |-> <<>>, pw2 |-> "", err |-> "none", out |-> <<>>]

NoPure == [fn |-> "none", arg |-> <<>>, err |-> "none", out |-> <<>>]

NoHeld == [got |-> FALSE, list |-> <<>>, same |-> FALSE]

NoHist ==
    [prevfile |-> <<>>, loaded |-> FALSE, added |-> FALSE, loadpw |-> <<>>,
     resaved |-> <<>>]

NoCmd ==
    [cmd |-> "none", env |-> <<>>, pw |-> <<>>, arg |-> <<>>, exit |-> 0,
     msg |-> "none", before |-> <<>>, added |-> 0, skipped |-> 0]

\* The second instance before it has done anything: its _entries, the step
\* of its save, the bytes it is writing, and the history of both instances.
NoPeer ==
    [entries |-> <<>>, saving |-> "idle", data |-> <<>>, oldok |-> FALSE,
     list |-> <<>>, err |-> "none", loaded |-> FALSE, ownloaded |-> FALSE,
     during |-> "idle", intact |-> TRUE, lastsave |-> "none",
     savers |-> {}, overlap |-> FALSE]

NoDraws == [drawn |-> {}, seen |-> {}, calls |-> <<>>]

NoTui ==
    [on |-> FALSE, pw |-> "", rows |-> <<>>, act |-> "none", arg |-> <<>>,
     note |-> "none", pre |-> <<>>, got |-> <<>>, put |-> <<>>]

\* A Vault instance just constructed, on a path without a file.
Init ==
    /\ entries = <<>>
    /\ file = <<>>
    /\ written = NoWriter
    /\ last = NoCall
    /\ cr = CrIdle
    /\ pf = NoPure
    /\ held = NoHeld
    /\ hist = NoHist
    /\ cli = NoCmd
    /\ tui = NoTui
    /\ rng = NoDraws
    /\ peer = NoPeer

\* Persistence: create, load and save against the file, with the entry list
\* changed in between.
Next ==
    \/ NewVault /\ UNCHANGED <<pf, held, hist, cli, tui, rng, peer>>
    \/ \E p \in Passwords, s \in Salts, i \in StoreIVs, t \in StoreTimes :
           Create(p, s, i, t) /\ UNCHANGED <<pf, held, hist, cli, tui, rng, peer>>
    \/ \E p \in Passwords : Load(p) /\ UNCHANGED <<pf, held, hist, cli, tui, rng, peer>>
    \/ \E p \in Passwords, s \in Salts, i \in StoreIVs, t \in StoreTimes :
           Save(p, s, i, t) /\ UNCHANGED <<pf, held, hist, cli, tui, rng, peer>>
    \/ \E e \in StoreEntries : AddEntry(e) /\ UNCHANGED <<pf, held, hist, cli, tui, rng, peer>>
    \/ \E q \in StoreQueries :
           RemoveEntry(q) /\ UNCHANGED <<pf, held, hist, cli, tui, rng, peer>>
    \/ \E x \in ExternalInputs, p \in Passwords, s \in Salts,
          i \in StoreIVs, t \in StoreTimes :
           ExternalWrite(x, p, s, i, t) /\ UNCHANGED <<pf, held, hist, cli, tui, rng, peer>>

Spec == Init /\ [][Next]_vars

\* Lookup: the in-memory operations on one instance.
NextLookup ==
    \/ NewVault /\ UNCHANGED <<pf, held, hist, cli, tui, rng, peer>>
    \/ \E e \in LookupEntries : AddEntry(e) /\ UNCHANGED <<pf, held, hist, cli, tui, rng, peer>>
    \/ \E q \in LookupQueries :
           GetEntryExact(q) /\ UNCHANGED <<pf, held, hist, cli, tui, rng, peer>>
    \/ \E q \in LookupQueries : GetEntry(q) /\ UNCHANGED <<pf, held, hist, cli, tui, rng, peer>>
    \/ \E q \in LookupQueries :
           RemoveEntry(q) /\ UNCHANGED <<pf, held, hist, cli, tui, rng, peer>>
    \/ \E q \in LookupQueries :
           SearchEntries(q) /\ UNCHANGED <<pf, held, hist, cli, tui, rng, peer>>
    \/ ListEntries /\ UNCHANGED <<pf, held, hist, cli, tui, rng, peer>>

SpecLookup == Init /\ [][NextLookup]_vars

\* ------------------------------------------------- crypto.py on its own

\* Longest run of characters outside the base64 alphabet added to a token.
MaxJunk == 1

\* The strings encrypted: "test data" (no JSON), the empty string, "t\u00e9\u20ac"
\* and U+1F511 (sequences of one to four bytes), and two vault payloads.
Messages ==
    { JInvalid, Text(<<>>), Text(<<116, 233, 8364>>), Text(<<128273>>),
      DumpsVault(<<>>),
      DumpsVault(<<TOTPEntry(<<65>>, <<74, 66>>, 6, SHA1, 30)>>) }

\* encrypt_data(M, P)
CrEncrypt(m, password, salt, iv, now) ==
    LET c == encrypt_data(m, password, salt, iv, now)
    IN  /\ cr' = [stage |-> "encrypted", data |-> m, pw |-> password,
                  salt |-> c.salt, tok |-> <<c.encrypted>>,
                  orig |-> <<c.encrypted>>, pw2 |-> "", err |-> "none",
                  out |-> <<>>]
        /\ UNCHANGED <<entries, file, written, last>>

\* Alterations of the token text before it is handed to decrypt_data: another
\* version byte, timestamp or iv; ciphertext or HMAC bytes changed; a
\* character outside the base64 alphabet (a newline, say) inserted.
Alterations(tok) ==
    { [tok EXCEPT !.ver = 129 + 128 - tok.ver] }
        \cup { [tok EXCEPT !.ts = t] : t \in Times \ {tok.ts} }
        \cup { [tok EXCEPT !.iv = i] : i \in IVs \ {tok.iv} }
        \cup { [tok EXCEPT !.ct.x = 1 - tok.ct.x] }
        \cup { [tok EXCEPT !.mac.x = 1 - tok.mac.x] }
        \cup { [tok EXCEPT !.junk = j] : j \in (0..MaxJunk) \ {tok.junk} }

CrAlter ==
    /\ cr.stage = "encrypted"
    /\ \E t \in Alterations(cr.tok[1]) : cr' = [cr EXCEPT !.tok = <<t>>]
    /\ UNCHANGED <<entries, file, written, last>>

\* decrypt_data(c, P2, salt) with the salt encrypt_data returned; out is the
\* value returned, <<>> when the call raised.
CrDecrypt(password) ==
    /\ cr.stage = "encrypted"
    /\ LET r == decrypt_data(cr.tok[1], password, cr.salt)
       IN  cr' = [cr EXCEPT !.stage = "decrypted", !.pw2 = password,
                            !.err = r.err,
                            !.out = IF r.err = "none" THEN <<r.data>> ELSE <<>>]
    /\ UNCHANGED <<entries, file, written, last>>

NextCrypto ==
    \/ \E m \in Messages, p \in Passwords, s \in Salts, i \in IVs, t \in Times :
           CrEncrypt(m, p, s, i, t) /\ UNCHANGED <<pf, held, hist, cli, tui, rng, peer>>
    \/ CrAlter /\ UNCHANGED <<pf, held, hist, cli, tui, rng, peer>>
    \/ \E p \in Passwords : CrDecrypt(p) /\ UNCHANGED <<pf, held, hist, cli, tui, rng, peer>>

SpecCrypto == Init /\ [][NextCrypto]_vars

\* ------------------------------------------------- TOTPEntry on its own

\* The record kept in pf: out is <<value returned>>, <<>> when the call raised.
Pure(fn, arg, err, out) ==
    [fn |-> fn, arg |-> <<arg>>, err |-> err,
     out |-> IF err = "none" THEN <<out>> ELSE <<>>]

\* Keys a record handed to from_dict may carry: the five fields and one key
\* that is no field.
RecordKeys == FieldSet \cup {"issuer"}

\* The value stored under each key: label l, secret "JB", digits 8,
\* algorithm "SHA256", period 60, issuer "A".
RecordValue(k, l) ==
    IF k = "label" THEN PyStr(l)
    ELSE IF k = "secret" THEN PyStr(<<74, 66>>)
    ELSE IF k = "digits" THEN PyInt(8)
    ELSE IF k = "algorithm" THEN PyStr(SHA256)
    ELSE IF k = "period" THEN PyInt(60)
    ELSE PyStr(<<65>>)

\* Arguments of from_dict: a dict for every set of keys, with the label "A"
\* or "%41"; a list and a string, which are no mappings.
RecordInputs ==
    { PyDict([k \in K |-> RecordValue(k, l)]) :
          K \in SUBSET RecordKeys, l \in {<<65>>, <<37, 52, 49>>} }
        \cup { PyList(<<>>), PyStr(<<65>>) }

\* TOTPEntry.from_dict(data)
FromDictCall(d) ==
    /\ pf' = Pure("from_dict", d, FromDictError(d),
                  IF FromDictError(d) = "none" THEN from_dict(d) ELSE <<>>)
    /\ UNCHANGED <<entries, file, written, last, cr, held, hist, cli, tui, rng, peer>>

\* entry.to_dict()
ToDictCall(e) ==
    /\ pf' = Pure("to_dict", e, "none", to_dict(e))
    /\ UNCHANGED <<entries, file, written, last, cr, held, hist, cli, tui, rng, peer>>

\* TOTPEntry.from_dict(entry.to_dict())
RoundTripCall(e) ==
    /\ pf' = Pure("round_trip", e, FromDictError(to_dict(e)),
                  IF FromDictError(to_dict(e)) = "none"
                  THEN from_dict(to_dict(e)) ELSE <<>>)
    /\ UNCHANGED <<entries, file, written, last, cr, held, hist, cli, tui, rng, peer>>

NextEntry ==
    \/ \E d \in RecordInputs : FromDictCall(d)
    \/ \E e \in StoreEntries \cup LookupEntries : ToDictCall(e)
    \/ \E e \in StoreEntries \cup LookupEntries : RoundTripCall(e)

SpecEntry == Init /\ [][NextEntry]_vars

\* ------------------------------------- the list returned by list_entries

\* Faulty variant: list_entries hands out self._entries itself.
ListEntriesResultAlias(list) == [got |-> TRUE, list |-> list, same |-> TRUE]

\* What the caller of list_entries holds: self._entries.copy(), a new list
\* object (same = FALSE) with the same elements in the same order.
ListEntriesResult(list) == [got |-> TRUE, list |-> list, same |-> FALSE]

\* The held list after the instance changed self._entries in place to
\* list: it follows when it is the same object.
HeldAfter(list) == IF held.same THEN [held EXCEPT !.list = list] ELSE held

\* The held list after self._entries was bound to a new list object
\* (__init__ of a new instance).
HeldApart == [held EXCEPT !.same = FALSE]

\* list.reverse()
Reverse(list) == [i \in 1..Len(list) |-> list[Len(list) + 1 - i]]

\* The caller changes the list it holds: append(e), del list[i], reverse().
\* The change reaches self._entries when both are the same object.
CallerMutates(new) ==
    /\ held.got
    /\ held' = [held EXCEPT !.list = new]
    /\ entries' = IF held.same THEN new ELSE entries
    /\ last' = Call("caller", "", <<>>, "none", FALSE, new, entries)
    /\ UNCHANGED <<file, written, cr, pf, hist, cli, tui, rng, peer>>

NextSnapshot ==
    \/ NewVault /\ held' = HeldApart /\ UNCHANGED <<pf, hist, cli, tui, rng, peer>>
    \/ \E e \in StoreEntries :
           AddEntry(e) /\ held' = HeldAfter(entries') /\ UNCHANGED <<pf, hist, cli, tui, rng, peer>>
    \/ \E q \in StoreQueries :
           RemoveEntry(q) /\ held' = HeldAfter(entries')
               /\ UNCHANGED <<pf, hist, cli, tui, rng, peer>>
    \/ ListEntries /\ held' = ListEntriesResult(entries)
           /\ UNCHANGED <<pf, hist, cli, tui, rng, peer>>
    \/ \E q \in StoreQueries : GetEntry(q) /\ UNCHANGED <<pf, held, hist, cli, tui, rng, peer>>
    \/ \E q \in StoreQueries :
           SearchEntries(q) /\ UNCHANGED <<pf, held, hist, cli, tui, rng, peer>>
    \/ \E e \in StoreEntries :
           Len(held.list) <= MaxEntries /\ CallerMutates(Append(held.list, e))
    \/ \E i \in 1..Len(held.list) : CallerMutates(Pop(held.list, i))
    \/ Len(held.list) >= 2 /\ CallerMutates(Reverse(held.list))

SpecSnapshot == Init /\ [][NextSnapshot]_vars

\* ------------------------------------ one instance and the file, framed

\* Entries of the framed specification: labels "A" and "%41".
FrameEntries ==
    { TOTPEntry(<<65>>, <<74, 66>>, 6, SHA1, 30),
      TOTPEntry(<<37, 52, 49>>, <<74, 66>>, 6, SHA1, 30) }

\* Queries of the framed specification: "a" and "%41".
FrameQueries == { <<97>>, <<37, 52, 49>> }

\* History kept beside every call: the file as the call found it; whether
\* load or create has returned without an error on the instance, and whether
\* add_entry was called on it, since its construction.
Recorded ==
    hist' = [prevfile |-> file,
             loaded |-> /\ last'.op # "init"
                        /\ \/ hist.loaded
                           \/ last'.op \in {"load", "create"} /\ last'.err = "none",
             added |-> /\ last'.op # "init"
                       /\ (hist.added \/ last'.op = "add_entry"),
             loadpw |-> IF last'.op = "init" THEN <<>>
                        ELSE IF last'.op = "load" /\ last'.err = "none"
                             THEN <<last'.pw>>
                        ELSE hist.loadpw,
             resaved |-> IF last'.op = "save" THEN hist.loadpw
                         ELSE IF last'.op = "create" THEN <<>>
                         ELSE hist.resaved]

\* Every operation of Vault on one path, with one instance at a time.
NextFrame ==
    \/ NewVault /\ Recorded /\ UNCHANGED <<pf, held, cli, tui, rng, peer>>
    \/ \E p \in Passwords, i \in StoreIVs, t \in StoreTimes :
           Create(p, "salt1", i, t) /\ Recorded /\ UNCHANGED <<pf, held, cli, tui, rng, peer>>
    \/ \E p \in Passwords : Load(p) /\ Recorded /\ UNCHANGED <<pf, held, cli, tui, rng, peer>>
    \/ \E p \in Passwords, i \in StoreIVs, t \in StoreTimes :
           Save(p, "salt1", i, t) /\ Recorded /\ UNCHANGED <<pf, held, cli, tui, rng, peer>>
    \/ \E e \in FrameEntries :
           AddEntry(e) /\ Recorded /\ UNCHANGED <<pf, held, cli, tui, rng, peer>>
    \/ \E q \in FrameQueries :
           RemoveEntry(q) /\ Recorded /\ UNCHANGED <<pf, held, cli, tui, rng, peer>>
    \/ \E q \in FrameQueries :
           GetEntry(q) /\ Recorded /\ UNCHANGED <<pf, held, cli, tui, rng, peer>>
    \/ \E q \in FrameQueries :
           GetEntryExact(q) /\ Recorded /\ UNCHANGED <<pf, held, cli, tui, rng, peer>>
    \/ \E q \in FrameQueries :
           SearchEntries(q) /\ Recorded /\ UNCHANGED <<pf, held, cli, tui, rng, peer>>
    \/ ListEntries /\ Recorded /\ UNCHANGED <<pf, held, cli, tui, rng, peer>>

SpecFrame == Init /\ [][NextFrame]_vars

\* ------------------------------------------------- cli.py: init, add, import

\* str.isdigit() on one character: the decimal digits, and the characters
\* Unicode calls digits without being decimal, of which the superscripts
\* 178, 179 and 185 stand in here.
IsDigit(c) == (c >= 48 /\ c <= 57) \/ c \in {178, 179, 185}

\* validate_password: len(password) == 6 and password.isdigit()
validate_password(password) ==
    Len(password) = 6 /\ \A i \in 1..Len(password) : IsDigit(password[i])

\* Passwords typed or set in DOTP_PASSWD: "123456", "654321", "12345",
\* "12345a", and "123456" with a superscript two for the 2.
CliPasswords ==
    { <<49, 50, 51, 52, 53, 54>>, <<54, 53, 52, 51, 50, 49>>,
      <<49, 50, 51, 52, 53>>, <<49, 50, 51, 52, 53, 97>>,
      <<49, 178, 51, 52, 53, 54>> }

\* Passwords given to add and import, which do not validate them.
CliVaultPasswords == { <<49, 50, 51, 52, 53, 54>>, <<54, 53, 52, 51, 50, 49>> }

\* Labels given to add and produced by the import adapters: "A", "a", "%41".
CliLabels == { <<65>>, <<97>>, <<37, 52, 49>> }

\* The entry add builds from its arguments, the options left at their defaults.
CliEntry(label) == TOTPEntry(label, <<74, 66>>, 6, SHA1, 30)

\* Lists an import adapter returns: up to MaxEntries entries.
AdapterLists ==
    UNION { [1..n -> {CliEntry(l) : l \in CliLabels}] : n \in 0..MaxEntries }

\* The record kept in cli: the command, DOTP_PASSWD, the password used, the
\* label or adapter list, the exit code, the message printed, the file as the
\* command found it, and the counters of import.
Cmd(cmd, env, pw, arg, exit, msg, before, added, skipped) ==
    [cmd |-> cmd, env |-> env, pw |-> pw, arg |-> arg, exit |-> exit,
     msg |-> msg, before |-> before, added |-> added, skipped |-> skipped]

\* One round of the interactive loop of init: the password typed and the
\* text typed at "Repeat: " (not asked for when the password is refused).
Attempt(pw, repeat) == [pw |-> pw, repeat |-> repeat]

\* The rounds typed at the prompts of init: "123456", "654321" or "123456"
\* with a superscript two, each repeated identically at once, or after a
\* round with a short password, with a letter, or with another repeat.
InitAttempts ==
    LET ok1 == Attempt(<<49, 50, 51, 52, 53, 54>>, <<49, 50, 51, 52, 53, 54>>)
        ok2 == Attempt(<<54, 53, 52, 51, 50, 49>>, <<54, 53, 52, 51, 50, 49>>)
        sup == Attempt(<<49, 178, 51, 52, 53, 54>>, <<49, 178, 51, 52, 53, 54>>)
        short == Attempt(<<49, 50, 51, 52, 53>>, <<49, 50, 51, 52, 53>>)
        alpha == Attempt(<<49, 50, 51, 52, 53, 97>>, <<49, 50, 51, 52, 53, 97>>)
        other == Attempt(<<49, 50, 51, 52, 53, 54>>, <<54, 53, 52, 51, 50, 49>>)
    IN  { <<ok1>>, <<ok2>>, <<sup>>, <<short, ok1>>, <<alpha, ok2>>,
          <<other, ok1>>, <<other, sup>>, <<short>>, <<other>> }

\* The while loop of init over the rounds typed: the password it breaks
\* with and the rounds it took, or no password when every round was refused.
RECURSIVE InitLoop(_, _)
InitLoop(typed, used) ==
    IF typed = <<>> THEN [pw |-> <<>>, used |-> used]
    ELSE IF ~validate_password(Head(typed).pw)
         THEN InitLoop(Tail(typed), used + 1)
    ELSE IF Head(typed).pw # Head(typed).repeat
         THEN InitLoop(Tail(typed), used + 1)
    ELSE [pw |-> <<Head(typed).pw>>, used |-> used + 1]

\* The password init goes on with: DOTP_PASSWD when set, else the one the
\* loop ended with.
InitPassword(env, typed) ==
    IF env # <<>> THEN env ELSE InitLoop(typed, 0).pw[1]

\* The rounds are the ones an interactive init reads: the loop ends with
\* the last of them.
InitReads(typed) ==
    InitLoop(typed, 0).pw # <<>> /\ InitLoop(typed, 0).used = Len(typed)

\* Faulty variant: init without the existence check.
CliInitOverwrites(env, typed, salt, iv, now) ==
    LET password == InitPassword(env, typed)
    IN  /\ env = <<>> => InitReads(typed)
        /\ IF env # <<>> /\ ~validate_password(env)
           THEN /\ cli' = Cmd("init", env, <<>>, <<>>, 1, "bad_password", file, 0, 0)
                /\ UNCHANGED <<entries, file, written>>
           ELSE /\ entries' = <<>>
                /\ file' = VaultData(encrypt_data(DumpsVault(<<>>), password,
                                                  salt, iv, now))
                /\ written' = Writer("create", password, <<>>, DumpsVault(<<>>),
                                     salt, iv, now)
                /\ cli' = Cmd("init", env, password,
                              IF env = <<>> THEN typed ELSE <<>>, 0, "created",
                              file, 0, 0)
        /\ UNCHANGED <<last, cr, pf, held, hist, tui, rng, peer>>

\* cli.init.  env is DOTP_PASSWD (<<>> when unset or empty); typed holds the
\* rounds read at the prompts, the last of which ends the loop; nothing is
\* read when the vault exists or DOTP_PASSWD is set.
CliInit(env, typed, salt, iv, now) ==
    LET password == InitPassword(env, typed)
    IN  /\ IF env = <<>> /\ file = <<>> THEN InitReads(typed) ELSE typed = <<>>
        /\ IF file # <<>>
           THEN /\ cli' = Cmd("init", env, <<>>, <<>>, 1, "already_exists", file, 0, 0)
                /\ UNCHANGED <<entries, file, written>>
           ELSE IF env # <<>> /\ ~validate_password(env)
           THEN /\ cli' = Cmd("init", env, <<>>, <<>>, 1, "bad_password", file, 0, 0)
                /\ UNCHANGED <<entries, file, written>>
           ELSE /\ entries' = <<>>
                /\ file' = VaultData(encrypt_data(DumpsVault(<<>>), password,
                                                  salt, iv, now))
                /\ written' = Writer("create", password, <<>>, DumpsVault(<<>>),
                                     salt, iv, now)
                /\ cli' = Cmd("init", env, password,
                              IF env = <<>> THEN typed ELSE <<>>, 0, "created",
                              file, 0, 0)
        /\ UNCHANGED <<last, cr, pf, held, hist, tui, rng, peer>>

\* cli.add: the vault must exist; load; the label must not be found by
\* get_entry_exact; add_entry and save.  An error of load other than
\* InvalidToken is not caught and ends the command with a traceback.
CliAdd(label, password, salt, iv, now) ==
    LET r == LoadResult(file, password, <<>>)
        list == Append(r.entries, CliEntry(label))
    IN  /\ IF file = <<>>
           THEN /\ cli' = Cmd("add", <<>>, password, label, 1, "not_found", file, 0, 0)
                /\ UNCHANGED <<entries, file, written>>
           ELSE IF r.err # "none"
           THEN /\ cli' = Cmd("add", <<>>, password, label, 1,
                              IF r.err = "InvalidToken" THEN "invalid_password"
                              ELSE "traceback", file, 0, 0)
                /\ entries' = r.entries
                /\ UNCHANGED <<file, written>>
           ELSE IF ExactMatch(r.entries, label) # <<>>
           THEN /\ cli' = Cmd("add", <<>>, password, label, 1, "exists", file, 0, 0)
                /\ entries' = r.entries
                /\ UNCHANGED <<file, written>>
           ELSE /\ Len(r.entries) < MaxEntries
                /\ entries' = list
                /\ file' = VaultData(encrypt_data(DumpsVault(list), password,
                                                  salt, iv, now))
                /\ written' = Writer("save", password, list, DumpsVault(list),
                                     salt, iv, now)
                /\ cli' = Cmd("add", <<>>, password, label, 0, "added", file, 1, 0)
        /\ UNCHANGED <<last, cr, pf, held, hist, tui, rng, peer>>

\* Faulty variant: an entry skipped is not counted.
RECURSIVE ImportLoopUncounted(_, _, _, _)
ImportLoopUncounted(stored, incoming, added, skipped) ==
    IF incoming = <<>>
    THEN [list |-> stored, added |-> added, skipped |-> skipped]
    ELSE IF ExactMatch(stored, Head(incoming).label) # <<>>
         THEN ImportLoopUncounted(stored, Tail(incoming), added, skipped)
         ELSE ImportLoopUncounted(Append(stored, Head(incoming)), Tail(incoming),
                                  added + 1, skipped)

\* The loop of import over the adapter's entries: an entry found by
\* get_entry_exact among those stored so far is skipped, another appended.
RECURSIVE ImportLoop(_, _, _, _)
ImportLoop(stored, incoming, added, skipped) ==
    IF incoming = <<>>
    THEN [list |-> stored, added |-> added, skipped |-> skipped]
    ELSE IF ExactMatch(stored, Head(incoming).label) # <<>>
         THEN ImportLoop(stored, Tail(incoming), added, skipped + 1)
         ELSE ImportLoop(Append(stored, Head(incoming)), Tail(incoming),
                         added + 1, skipped)

\* cli.import_cmd, the import file present: load, the loop, one save.
CliImport(incoming, password, salt, iv, now) ==
    LET r == LoadResult(file, password, <<>>)
        done == ImportLoop(r.entries, incoming, 0, 0)
    IN  /\ IF file = <<>>
           THEN /\ cli' = Cmd("import", <<>>, password, incoming, 1, "not_found",
                              file, 0, 0)
                /\ UNCHANGED <<entries, file, written>>
           ELSE IF r.err # "none"
           THEN /\ cli' = Cmd("import", <<>>, password, incoming, 1,
                              IF r.err = "InvalidToken" THEN "invalid_password"
                              ELSE "traceback", file, 0, 0)
                /\ entries' = r.entries
                /\ UNCHANGED <<file, written>>
           ELSE /\ Len(done.list) <= MaxEntries
                /\ entries' = done.list
                /\ file' = VaultData(encrypt_data(DumpsVault(done.list), password,
                                                  salt, iv, now))
                /\ written' = Writer("save", password, done.list,
                                     DumpsVault(done.list), salt, iv, now)
                /\ cli' = Cmd("import", <<>>, password, incoming, 0, "imported",
                              file, done.added, done.skipped)
        /\ UNCHANGED <<last, cr, pf, held, hist, tui, rng, peer>>

\* cli.import_cmd when the import file does not exist: the vault must exist,
\* then the command ends before it asks for the password.
CliImportNoFile ==
    /\ cli' = Cmd("import", <<>>, <<>>, <<>>, 1,
                  IF file = <<>> THEN "not_found" ELSE "import_not_found",
                  file, 0, 0)
    /\ UNCHANGED <<entries, file, written>>
    /\ UNCHANGED <<last, cr, pf, held, hist, tui, rng, peer>>

\* Faulty variant: get writes the vault back after the lookup.
CliGetSaves(label, password) ==
    LET r == LoadResult(file, password, <<>>)
    IN  /\ file # <<>> /\ r.err = "none"
        /\ entries' = r.entries
        /\ file' = VaultData(encrypt_data(DumpsVault(r.entries), password,
                                          "salt2", "iv1", 1700000000))
        /\ written' = Writer("save", password, r.entries, DumpsVault(r.entries),
                             "salt2", "iv1", 1700000000)
        /\ cli' = Cmd("get", <<>>, password, label,
                      IF EntryMatch(r.entries, label) = <<>> THEN 1 ELSE 0,
                      IF EntryMatch(r.entries, label) = <<>>
                      THEN "entry_not_found" ELSE "token", file, 0, 0)
        /\ UNCHANGED <<last, cr, pf, held, hist, tui, rng, peer>>

\* cli.get: the vault must exist; load; get_entry(label); the token of the
\* entry found is printed.
CliGet(label, password) ==
    LET r == LoadResult(file, password, <<>>)
    IN  /\ IF file = <<>>
           THEN /\ cli' = Cmd("get", <<>>, password, label, 1, "not_found", file, 0, 0)
                /\ UNCHANGED entries
           ELSE IF r.err # "none"
           THEN /\ cli' = Cmd("get", <<>>, password, label, 1,
                              IF r.err = "InvalidToken" THEN "invalid_password"
                              ELSE "traceback", file, 0, 0)
                /\ entries' = r.entries
           ELSE IF EntryMatch(r.entries, label) = <<>>
           THEN /\ cli' = Cmd("get", <<>>, password, label, 1, "entry_not_found",
                              file, 0, 0)
                /\ entries' = r.entries
           ELSE /\ cli' = Cmd("get", <<>>, password, label, 0, "token", file, 0, 0)
                /\ entries' = r.entries
        /\ UNCHANGED <<file, written>>
        /\ UNCHANGED <<last, cr, pf, held, hist, tui, rng, peer>>

\* Labels asked of get: "A", "%41" and "B".
CliGetLabels == { <<65>>, <<37, 52, 49>>, <<66>> }

\* The commands run one after another on one vault path.
NextCli ==
    \/ \E env \in CliPasswords \cup {<<>>}, s \in Salts,
          i \in StoreIVs, t \in StoreTimes :
           \E typed \in IF env = <<>> /\ file = <<>> THEN InitAttempts ELSE {<<>>} :
               CliInit(env, typed, s, i, t)
    \/ \E l \in CliLabels, p \in CliVaultPasswords,
          i \in StoreIVs, t \in StoreTimes : CliAdd(l, p, "salt1", i, t)
    \/ \E a \in AdapterLists, p \in CliVaultPasswords,
          i \in StoreIVs, t \in StoreTimes : CliImport(a, p, "salt1", i, t)
    \/ CliImportNoFile
    \/ \E l \in CliGetLabels, p \in CliVaultPasswords : CliGet(l, p)

SpecCli == Init /\ [][NextCli]_vars

\* ---------------------------------------------------- tui.py: DOTPApp

\* The record kept in tui: whether the app runs, self.password, the row keys
\* of the table, the last action with its argument and notification, the
\* entries as the action found them, what get_entry returned for each row
\* the action looked up, and the entry the edit modal returned.
Tui(on, pw, rows, act, arg, note, pre) ==
    [on |-> on, pw |-> pw, rows |-> rows, act |-> act, arg |-> arg,
     note |-> note, pre |-> pre, got |-> <<>>, put |-> <<>>]

\* Labels typed into the add modal: "A", "A4", "%4a", "%4A" and "%254a".
TuiLabels ==
    { <<65>>, <<65, 52>>, <<37, 52, 97>>, <<37, 52, 65>>,
      <<37, 50, 53, 52, 97>> }

\* Labels typed into the edit modal: "A" and "%4A".
EditLabels == { <<65>>, <<37, 52, 65>> }

\* The vaults the TUI works on hold up to MaxRows entries.
MaxRows == MaxEntries + 1

\* refresh_table without a search query: one row per entry of
\* list_entries, keyed by its raw label.  DataTable.add_row raises
\* DuplicateKey at the first entry whose key is already a row.
\* (generate_token succeeds on the secrets used here.)
RefreshTable(list) ==
    LET dup == FirstIndex({j \in 1..Len(list) :
                   \E i \in 1..(j - 1) : list[i].label = list[j].label})
    IN  IF dup = 0
        THEN [err |-> "none", rows |-> [i \in 1..Len(list) |-> list[i].label]]
        ELSE [err |-> "DuplicateKey",
              rows |-> [i \in 1..(dup - 1) |-> list[i].label]]

\* run_tui and on_mount: the vault must exist; a new Vault instance loads
\* it with the password given; InvalidToken ends the app with a notice, any
\* other error with a traceback; then refresh_table.
TuiStart(password) ==
    LET r == LoadResult(file, password, <<>>)
        t == RefreshTable(r.entries)
    IN  /\ ~tui.on
        /\ IF file = <<>>
           THEN /\ tui' = Tui(FALSE, password, <<>>, "start", <<>>, "not_found",
                              entries)
                /\ UNCHANGED entries
           ELSE IF r.err # "none"
           THEN /\ tui' = Tui(FALSE, password, <<>>, "start", <<>>,
                              IF r.err = "InvalidToken" THEN "invalid_password"
                              ELSE "traceback", entries)
                /\ entries' = r.entries
           ELSE /\ tui' = Tui(t.err = "none", password, t.rows, "start", <<>>,
                              IF t.err = "none" THEN "none" ELSE "traceback",
                              entries)
                /\ entries' = r.entries
        /\ UNCHANGED <<file, written, last, cr, pf, held, hist, cli, rng, peer>>

\* action_quit
TuiQuit ==
    /\ tui.on
    /\ tui' = Tui(FALSE, tui.pw, <<>>, "quit", <<>>, "none", entries)
    /\ UNCHANGED <<entries, file, written, last, cr, pf, held, hist, cli, rng, peer>>

\* action_add_entry with the modal confirmed (label and secret not empty):
\* the label is looked up with get_entry; when nothing is found the entry
\* is appended, the vault saved and the table refreshed.
TuiAdd(label, salt, iv, now) ==
    LET list == Append(entries, CliEntry(label))
        t == RefreshTable(list)
    IN  /\ tui.on
        /\ label # <<>>
        /\ IF EntryMatch(entries, label) # <<>>
           THEN /\ tui' = Tui(TRUE, tui.pw, tui.rows, "add", label, "exists",
                              entries)
                /\ UNCHANGED <<entries, file, written>>
           ELSE /\ Len(entries) < MaxRows
                /\ entries' = list
                /\ file' = VaultData(encrypt_data(DumpsVault(list), tui.pw,
                                                  salt, iv, now))
                /\ written' = Writer("save", tui.pw, list, DumpsVault(list),
                                     salt, iv, now)
                /\ tui' = Tui(t.err = "none", tui.pw, t.rows, "add", label,
                              IF t.err = "none" THEN "added" ELSE "traceback",
                              entries)
        /\ UNCHANGED <<last, cr, pf, held, hist, cli, rng, peer>>

\* self.vault.get_entry(str(row_key.value))
RowLookup(list, key) == EntryMatch(list, key)

\* on_row_selected (Enter on row k): the entry get_entry returns for the row
\* key has its token copied; nothing happens when it returns none.
\* close_on_copy is left at its default.
TuiSelectRow(k) ==
    LET found == RowLookup(entries, tui.rows[k])
    IN  /\ tui.on
        /\ k \in 1..Len(tui.rows)
        /\ tui' = [Tui(TRUE, tui.pw, tui.rows, "select", <<k>>,
                       IF found # <<>> THEN "copied" ELSE "none", entries)
                       EXCEPT !.got = <<found>>]
        /\ UNCHANGED <<entries, file, written, last, cr, pf, held, hist, cli, rng, peer>>

\* action_copy_and_close with the cursor on row k: the token of the entry
\* get_entry returns is copied and the app exits; nothing happens when it
\* returns none.
TuiCopyAndClose(k) ==
    LET found == RowLookup(entries, tui.rows[k])
    IN  /\ tui.on
        /\ k \in 1..Len(tui.rows)
        /\ tui' = [Tui(found = <<>>, tui.pw,
                       IF found = <<>> THEN tui.rows ELSE <<>>,
                       "copy_and_close", <<k>>,
                       IF found # <<>> THEN "copied" ELSE "none", entries)
                       EXCEPT !.got = <<found>>]
        /\ UNCHANGED <<entries, file, written, last, cr, pf, held, hist, cli, rng, peer>>

\* refresh_tokens, on the timer: every row key is looked up with get_entry
\* and the token cell of the rows found is updated.
TuiRefreshTokens ==
    /\ tui.on
    /\ tui.rows # <<>>
    /\ tui' = [Tui(TRUE, tui.pw, tui.rows, "refresh_tokens",
                   [k \in 1..Len(tui.rows) |-> k], "none", entries)
                   EXCEPT !.got = [k \in 1..Len(tui.rows) |->
                                      RowLookup(entries, tui.rows[k])]]
    /\ UNCHANGED <<entries, file, written, last, cr, pf, held, hist, cli, rng, peer>>

\* The entry the edit modal returns: the label typed, with the secret
\* replaced by "KB" and the other fields as prefilled.
EditedEntry(label) == TOTPEntry(label, <<75, 66>>, 6, SHA1, 30)

\* action_edit_entry with the cursor on row k and the modal confirmed with
\* the label typed: get_entry resolves the row key, "Entry not found" when
\* it returns none; a changed label is looked up with get_entry and
\* rejected when found; remove_entry(original_label) with the row key, then
\* add_entry, save and refresh_table.
TuiEdit(k, label, salt, iv, now) ==
    LET key == tui.rows[k]
        found == RowLookup(entries, key)
        updated_entry == EditedEntry(label)
        i == RemoveIndex(entries, key)
        list == Append(IF i = 0 THEN entries ELSE Pop(entries, i), updated_entry)
        t == RefreshTable(list)
    IN  /\ tui.on
        /\ k \in 1..Len(tui.rows)
        /\ label # <<>>
        /\ IF found = <<>>
           THEN /\ tui' = [Tui(TRUE, tui.pw, tui.rows, "edit", <<k>>,
                               "entry_not_found", entries)
                               EXCEPT !.got = <<found>>]
                /\ UNCHANGED <<entries, file, written>>
           ELSE IF label # key /\ EntryMatch(entries, label) # <<>>
           THEN /\ tui' = [Tui(TRUE, tui.pw, tui.rows, "edit", <<k>>, "exists",
                               entries)
                               EXCEPT !.got = <<found>>,
                                      !.put = <<updated_entry>>]
                /\ UNCHANGED <<entries, file, written>>
           ELSE /\ Len(list) <= MaxRows
                /\ entries' = list
                /\ file' = VaultData(encrypt_data(DumpsVault(list), tui.pw,
                                                  salt, iv, now))
                /\ written' = Writer("save", tui.pw, list, DumpsVault(list),
                                     salt, iv, now)
                /\ tui' = [Tui(t.err = "none", tui.pw, t.rows, "edit", <<k>>,
                               IF t.err = "none" THEN "updated" ELSE "traceback",
                               entries)
                               EXCEPT !.got = <<found>>,
                                      !.put = <<updated_entry>>]
        /\ UNCHANGED <<last, cr, pf, held, hist, cli, rng, peer>>

\* The TUI on a vault made by init; one app at a time.
NextTui ==
    \/ \E p \in CliVaultPasswords, i \in StoreIVs, t \in StoreTimes :
           /\ ~tui.on
           /\ file = <<>>
           /\ Create(p, "salt1", i, t)
           /\ UNCHANGED <<pf, held, hist, cli, tui, rng, peer>>
    \/ \E p \in CliVaultPasswords : TuiStart(p)
    \/ TuiQuit
    \/ \E l \in TuiLabels, i \in StoreIVs, t \in StoreTimes :
           TuiAdd(l, "salt1", i, t)
    \/ \E k \in 1..MaxRows : TuiSelectRow(k)
    \/ \E k \in 1..MaxRows : TuiCopyAndClose(k)
    \/ TuiRefreshTokens
    \/ \E k \in 1..MaxRows, l \in EditLabels, i \in StoreIVs, t \in StoreTimes :
           TuiEdit(k, l, "salt1", i, t)

SpecTui == Init /\ [][NextTui]_vars

\* ---------------------------------------------------------------- claims

\* The file the last writer produced, recomputed from the record of its write.
WrittenFile ==
    VaultData(encrypt_data(written.data, written.pw, written.salt,
                           written.iv, written.now))

\* C1: save(P) followed by load(P) on a fresh Vault bound to the same path
\* yields the saved list: same length, same order, and the same label,
\* secret, digits, algorithm and period in every entry.
C1_RoundTrip ==
    (last.op = "load" /\ last.pre = <<>> /\ written.by = "save"
        /\ last.pw = written.pw)
    => /\ last.err = "none"
       /\ Len(entries) = Len(written.list)
       /\ \A i \in 1..Len(written.list) :
              \A f \in FieldSet : entries[i][f] = written.list[i][f]

\* A fresh instance has loaded a saved list of two different entries, one of
\* them with non-default digits, algorithm and period.
C1_Witness ==
    /\ last.op = "load" /\ last.pre = <<>> /\ written.by = "save"
    /\ last.pw = written.pw
    /\ Len(written.list) = 2
    /\ written.list[1] # written.list[2]
    /\ \E i \in 1..2 : written.list[i].period = 60
    /\ entries = written.list

\* The token bytes urlsafe_b64decode yields: the text without the
\* characters outside the alphabet.
DecodedBytes(tok) == [tok EXCEPT !.junk = 0]

\* C2 as stated: decrypt_data raises the authentication failure whenever the
\* password differs from the one encrypted with, and whenever the ciphertext
\* handed in is the encrypted one with any alteration.
C2_AnyAlteration ==
    (cr.stage = "decrypted" /\ (cr.pw2 # cr.pw \/ cr.tok # cr.orig))
    => cr.err = "InvalidToken"

\* C2 amended: decrypt_data raises the authentication failure, and returns
\* nothing, whenever the password differs or the altered token decodes to
\* other bytes than the encrypted one; an alteration that leaves the decoded
\* bytes as they were is not detected and the message is returned.
C2_WrongPasswordOrBytes ==
    /\ (cr.stage = "decrypted"
          /\ (cr.pw2 # cr.pw \/ DecodedBytes(cr.tok[1]) # DecodedBytes(cr.orig[1])))
       => (cr.err = "InvalidToken" /\ cr.out = <<>>)
    /\ (cr.stage = "decrypted" /\ cr.pw2 = cr.pw /\ cr.tok # cr.orig
          /\ DecodedBytes(cr.tok[1]) = DecodedBytes(cr.orig[1]))
       => (cr.err = "none" /\ cr.out = <<cr.data>>)

\* A vault payload was encrypted and decrypting it under the other password
\* was refused.
C2_Witness ==
    /\ cr.stage = "decrypted"
    /\ cr.pw2 # cr.pw
    /\ cr.tok = cr.orig
    /\ cr.data # JInvalid
    /\ cr.err = "InvalidToken"
    /\ cr.out = <<>>

\* C3: load with another password than the file was written with raises the
\* authentication failure, leaves the entries of the instance as they were
\* and leaves the file as it was written.
C3_WrongPassword ==
    (last.op = "load" /\ written.by # "none" /\ last.pw # written.pw)
    => /\ last.err = "InvalidToken"
       /\ entries = last.pre
       /\ file = WrittenFile

\* An instance holding entries other than the saved ones was refused.
C3_Witness ==
    /\ last.op = "load" /\ written.by = "save" /\ last.pw # written.pw
    /\ last.err = "InvalidToken"
    /\ last.pre # <<>>
    /\ written.list # <<>>
    /\ last.pre # written.list
    /\ entries = last.pre

\* C9: a load that succeeds replaces the entries in memory by the entries of
\* the file, in file order, whatever was added or removed and not saved.
C9_LoadReplaces ==
    (last.op = "load" /\ last.err = "none") => entries = written.list

\* The instance held an entry the file lacks (an unsaved add) and lacked an
\* entry the file has (an unsaved removal).
C9_Witness ==
    /\ last.op = "load" /\ last.err = "none"
    /\ \E i \in 1..Len(last.pre) :
           \A n \in 1..Len(written.list) : written.list[n] # last.pre[i]
    /\ \E n \in 1..Len(written.list) :
           \A i \in 1..Len(last.pre) : written.list[n] # last.pre[i]
    /\ entries = written.list

\* The kinds of payload C10 names.
CorruptKinds == {"not_json", "no_entries", "missing_field"}

\* C10 as stated: a payload that decrypts and is no valid vault content makes
\* load fail with the dedicated CorruptVault error, the entries unchanged.
C10_CorruptVault ==
    (last.op = "load" /\ written.by \in CorruptKinds /\ last.pw = written.pw)
    => (last.err = "CorruptVault" /\ entries = last.pre)

\* C10 amended: such a payload makes load fail with json.JSONDecodeError (no
\* JSON), KeyError (no "entries" key) or TypeError (a record without label or
\* secret), none of them the authentication failure and none dedicated to
\* corrupt vaults; the entries are unchanged, no record of the file loaded.
C10_GenericError ==
    (last.op = "load" /\ written.by \in CorruptKinds /\ last.pw = written.pw)
    => /\ last.err = (IF written.by = "not_json" THEN "JSONDecodeError"
                      ELSE IF written.by = "no_entries" THEN "KeyError"
                      ELSE "TypeError")
       /\ last.err # "InvalidToken"
       /\ entries = last.pre

\* A file with a valid record and a record lacking a required field was
\* loaded by an instance holding entries.
C10_Witness ==
    /\ last.op = "load" /\ written.by = "missing_field"
    /\ last.pw = written.pw
    /\ last.err = "TypeError"
    /\ last.pre # <<>>
    /\ entries = last.pre

\* The percent-decoded label of e equals q ignoring case.
DecodedEq(e, q) == Lower(Unquote(e.label)) = Lower(q)

\* The percent-decoded label of e starts with q ignoring case.
DecodedPrefix(e, q) == StartsWith(Lower(Unquote(e.label)), Lower(q))

\* The raw label of e equals q ignoring case.
RawEq(e, q) == Lower(e.label) = Lower(q)

\* C4: when some entry's decoded label equals the query ignoring case,
\* get_entry returns the first such entry in insertion order, also when an
\* entry matching only by prefix was inserted earlier.
C4_ExactPrecedence ==
    last.op = "get_entry"
    => \A i \in 1..Len(last.pre) :
           (DecodedEq(last.pre[i], last.q)
               /\ \A n \in 1..(i - 1) : ~DecodedEq(last.pre[n], last.q))
           => last.ret = <<last.pre[i]>>

\* get_entry returned the exact match stored after a prefix-only match.
C4_Witness ==
    /\ last.op = "get_entry"
    /\ Len(last.pre) = 2
    /\ DecodedPrefix(last.pre[1], last.q) /\ ~DecodedEq(last.pre[1], last.q)
    /\ DecodedEq(last.pre[2], last.q)
    /\ last.pre[1] # last.pre[2]
    /\ last.ret = <<last.pre[2]>>

\* C5: when no entry's decoded label equals the query ignoring case (the
\* empty query included), get_entry returns the first entry in insertion
\* order whose decoded label starts with the query ignoring case, and None
\* exactly when there is no such entry.
C5_PrefixFallback ==
    (last.op = "get_entry"
        /\ \A i \in 1..Len(last.pre) : ~DecodedEq(last.pre[i], last.q))
    => /\ \A i \in 1..Len(last.pre) :
              (DecodedPrefix(last.pre[i], last.q)
                  /\ \A n \in 1..(i - 1) : ~DecodedPrefix(last.pre[n], last.q))
              => last.ret = <<last.pre[i]>>
       /\ (last.ret = <<>>)
              <=> (\A i \in 1..Len(last.pre) : ~DecodedPrefix(last.pre[i], last.q))

\* get_entry fell back to the second entry, whose label matches the
\* non-empty query only by prefix and only once decoded.
C5_Witness ==
    /\ last.op = "get_entry"
    /\ last.q # <<>>
    /\ Len(last.pre) = 2
    /\ \A i \in 1..2 : ~DecodedEq(last.pre[i], last.q)
    /\ ~DecodedPrefix(last.pre[1], last.q)
    /\ DecodedPrefix(last.pre[2], last.q)
    /\ ~StartsWith(Lower(last.pre[2].label), Lower(last.q))
    /\ last.ret = <<last.pre[2]>>

\* get_entry("") returned the first of two entries, none with an empty label.
C5_WitnessEmptyQuery ==
    /\ last.op = "get_entry"
    /\ last.q = <<>>
    /\ Len(last.pre) = 2
    /\ \A i \in 1..2 : last.pre[i].label # <<>>
    /\ last.ret = <<last.pre[1]>>

\* C6: get_entry_exact compares the query as given, ignoring case, with the
\* percent-decoded stored labels, and returns the first entry in insertion
\* order whose decoded label equals it, None when there is none (so never
\* an entry matching only by prefix).
C6_ExactDecoded ==
    last.op = "get_entry_exact"
    => /\ \A i \in 1..Len(last.pre) :
              (DecodedEq(last.pre[i], last.q)
                  /\ \A n \in 1..(i - 1) : ~DecodedEq(last.pre[n], last.q))
              => last.ret = <<last.pre[i]>>
       /\ (\A i \in 1..Len(last.pre) : ~DecodedEq(last.pre[i], last.q))
              => last.ret = <<>>

\* The query "%41" skipped the entry stored as "%41" (decoded "A") and found
\* the entry stored as "%2541" (decoded "%41").
C6_Witness ==
    /\ last.op = "get_entry_exact"
    /\ last.q = <<37, 52, 49>>
    /\ Len(last.pre) = 2
    /\ last.pre[1].label = <<37, 52, 49>>
    /\ last.pre[2].label = <<37, 50, 53, 52, 49>>
    /\ last.ret = <<last.pre[2]>>

C7_WitnessRemoved ==
    /\ last.op = "remove_entry"
    /\ last.found
    /\ Len(last.pre) = 2
    /\ last.pre[2].label # last.q
    /\ entries = <<last.pre[1]>>

\* The positions of list whose raw label contains q ignoring case.
RawHits(list, q) ==
    {i \in 1..Len(list) : Contains(Lower(list[i].label), Lower(q))}

\* C8: search_entries returns the entries whose raw label contains the query
\* ignoring case, all of them and no other, in insertion order, and leaves
\* the store as it was; the empty query returns every entry.
C8_SearchRaw ==
    last.op = "search_entries"
    => LET hits == RawHits(last.pre, last.q)
       IN  /\ Len(last.ret) = Cardinality(hits)
           /\ \A i \in hits :
                  last.ret[Cardinality({n \in hits : n <= i})] = last.pre[i]
           /\ entries = last.pre
           /\ last.q = <<>> => last.ret = last.pre

\* search_entries returned one of two entries: the label it matched holds
\* the query in another case and not at its start; the label it left out
\* would contain the query once decoded.
C8_Witness ==
    /\ last.op = "search_entries"
    /\ Len(last.pre) = 2
    /\ Len(last.ret) = 1
    /\ \E i \in 1..2 :
           /\ last.ret = <<last.pre[i]>>
           /\ ~StartsWith(Lower(last.pre[i].label), Lower(last.q))
           /\ ~Contains(last.pre[i].label, last.q)
    /\ \E i \in 1..2 :
           /\ last.ret # <<last.pre[i]>>
           /\ Contains(Lower(Unquote(last.pre[i].label)), Lower(last.q))

\* C11 (as stated): from_dict accepts every record that has label and
\* secret, whatever other keys it carries: the entry holds the values given,
\* 6, "SHA1" and 30 for digits, algorithm and period when their key is
\* missing, and nothing of the unknown keys; a record without label or
\* without secret is rejected with an error.
C11_FromDictLenient ==
    (pf.fn = "from_dict" /\ pf.arg[1].t = "dict") =>
        LET d == pf.arg[1].d
        IN  IF {"label", "secret"} \subseteq DOMAIN d
            THEN /\ pf.err = "none"
                 /\ pf.out = << TOTPEntry(
                        d["label"].s, d["secret"].s,
                        IF "digits" \in DOMAIN d THEN d["digits"].n ELSE 6,
                        IF "algorithm" \in DOMAIN d THEN d["algorithm"].s
                        ELSE <<83, 72, 65, 49>>,
                        IF "period" \in DOMAIN d THEN d["period"].n ELSE 30) >>
            ELSE pf.err # "none"

\* C11: from_dict accepts exactly the records whose keys are among the
\* five fields and include label and secret: the entry holds the values
\* given and 6, "SHA1", 30 for digits, algorithm, period when their key is
\* missing; every other record, one with an unknown key included, is
\* rejected with TypeError.
C11_FromDictKnownKeys ==
    (pf.fn = "from_dict" /\ pf.arg[1].t = "dict") =>
        LET d == pf.arg[1].d
        IN  IF /\ {"label", "secret"} \subseteq DOMAIN d
               /\ DOMAIN d \subseteq
                      {"label", "secret", "digits", "algorithm", "period"}
            THEN /\ pf.err = "none"
                 /\ pf.out = << TOTPEntry(
                        d["label"].s, d["secret"].s,
                        IF "digits" \in DOMAIN d THEN d["digits"].n ELSE 6,
                        IF "algorithm" \in DOMAIN d THEN d["algorithm"].s
                        ELSE <<83, 72, 65, 49>>,
                        IF "period" \in DOMAIN d THEN d["period"].n ELSE 30) >>
            ELSE pf.err = "TypeError" /\ pf.out = <<>>

\* C11: a record with label, secret and the unknown key "issuer" was handed
\* to from_dict, which raised TypeError.
C11_UnknownKeyRejected ==
    /\ pf.fn = "from_dict"
    /\ pf.arg[1].t = "dict"
    /\ DOMAIN pf.arg[1].d = {"label", "secret", "issuer"}
    /\ pf.err = "TypeError"
    /\ pf.out = <<>>

\* C12: load on a path where nothing ever wrote a file raises
\* FileNotFoundError, leaves the entries of the instance as they were, and
\* leaves the path without a file.
C12_LoadNoFile ==
    (last.op = "load" /\ written.by = "none") =>
        /\ last.err = "FileNotFoundError"
        /\ entries = last.pre
        /\ file = <<>>

\* C12: load failed with FileNotFoundError on an instance that held entries.
C12_Witness ==
    /\ last.op = "load"
    /\ written.by = "none"
    /\ last.err = "FileNotFoundError"
    /\ last.pre # <<>>
    /\ entries = last.pre
    /\ file = <<>>

\* C13: add_entry(e) raises nothing and leaves the list it found with e
\* appended: one element longer, e last, every earlier element in its place;
\* and it can be called with every entry, whatever labels are stored.
C13_AddAppends ==
    /\ last.op = "add_entry" =>
          /\ last.err = "none"
          /\ Len(entries) = Len(last.pre) + 1
          /\ entries[Len(entries)] = last.ret[1]
          /\ \A k \in 1..Len(last.pre) : entries[k] = last.pre[k]
    /\ Len(entries) < MaxEntries =>
          \A e \in LookupEntries : ENABLED AddEntry(e)

\* C13: an entry was added whose label, raw, was already stored.
C13_Witness ==
    /\ last.op = "add_entry"
    /\ \E k \in 1..Len(last.pre) : last.pre[k].label = last.ret[1].label
    /\ entries = Append(last.pre, last.ret[1])

\* C13: an entry was added whose label differs from a stored one only by
\* percent-escapes or case.
C13_WitnessDecoded ==
    /\ last.op = "add_entry"
    /\ \E k \in 1..Len(last.pre) :
           /\ last.pre[k].label # last.ret[1].label
           /\ Lower(Unquote(last.pre[k].label)) = Lower(Unquote(last.ret[1].label))
    /\ entries = Append(last.pre, last.ret[1])

\* C14: list_entries returns the entries in the order of the list, as a
\* list of its own; when the caller appends to that list, removes from it
\* or reverses it, the entries of the instance stay as they were, and with
\* them every later list_entries, get_entry and search_entries result and
\* the payload of a later save, which are computed from the entries alone.
C14_Snapshot ==
    /\ last.op = "list_entries" =>
          /\ last.ret = entries
          /\ held.list = entries
          /\ entries = last.pre
    /\ last.op = "caller" =>
          /\ entries = last.pre
          /\ held.list = last.ret
          /\ ExactMatch(entries, <<97>>) = ExactMatch(last.pre, <<97>>)
          /\ SearchResult(entries, <<97>>) = SearchResult(last.pre, <<97>>)
          /\ DumpsVault(entries) = DumpsVault(last.pre)

\* C14: the caller changed a list returned by list_entries into one that
\* differs from the stored entries, of which there are some.
C14_Witness ==
    /\ last.op = "caller"
    /\ entries # <<>>
    /\ held.list = last.ret
    /\ held.list # entries
    /\ entries = last.pre

\* C15: add_entry, remove_entry, get_entry, get_entry_exact, list_entries,
\* search_entries and load leave the file as they found it; add_entry and
\* remove_entry change the entries in memory and nothing else.
C15_FileFrame ==
    /\ last.op \in {"add_entry", "remove_entry", "get_entry", "get_entry_exact",
                    "list_entries", "search_entries", "load"} =>
          file = hist.prevfile
    /\ last.op \in {"get_entry", "get_entry_exact", "list_entries",
                    "search_entries"} =>
          entries = last.pre

\* C15: add_entry was called on an instance whose file holds a vault; the
\* file is as before and decrypts to a list that lacks the new entry.
C15_Witness ==
    /\ last.op = "add_entry"
    /\ file # <<>>
    /\ file = hist.prevfile
    /\ entries # last.pre
    /\ ReadVault(file, written.pw).err = "none"
    /\ ReadVault(file, written.pw).list # entries

\* C16: load(P) of a file that create(P) wrote returns without an error
\* and leaves the instance with an empty entry list.
C16_CreateThenLoad ==
    (last.op = "load" /\ written.by = "create" /\ last.pw = written.pw) =>
        /\ last.err = "none"
        /\ entries = <<>>

\* C16: such a load on an instance that held no entries.
C16_Witness ==
    /\ last.op = "load"
    /\ written.by = "create"
    /\ last.pw = written.pw
    /\ last.pre = <<>>
    /\ last.err = "none"
    /\ entries = <<>>

\* C17: create(P) can be called whether or not a file exists, and the file
\* it leaves decrypts under P to an empty entry list.
C17_CreateOverwrites ==
    /\ last.op = "create" =>
          /\ last.err = "none"
          /\ file # <<>>
          /\ ReadVault(file, last.pw) = [err |-> "none", list |-> <<>>]
    /\ \A p \in Passwords : ENABLED Create(p, "salt1", "iv1", 1700000000)

\* C17: create(P) was called over a file that held entries under another
\* password.
C17_Witness ==
    /\ last.op = "create"
    /\ hist.prevfile # <<>>
    /\ hist.prevfile # file
    /\ \E p \in Passwords \ {last.pw} :
           /\ ReadVault(hist.prevfile, p).err = "none"
           /\ ReadVault(hist.prevfile, p).list # <<>>
    /\ ReadVault(file, last.pw) = [err |-> "none", list |-> <<>>]

\* C19 (as stated): as long as neither load nor create has succeeded on an
\* instance, its entry list is empty.
C19_UnloadedEmpty == ~hist.loaded => entries = <<>>

\* C19: what holds: the list is empty as long as neither load nor create
\* has succeeded and add_entry was not called.
C19_UnloadedUnaddedEmpty == (~hist.loaded /\ ~hist.added) => entries = <<>>

\* C19: load failed on a newly constructed instance bound to a file that
\* holds a vault; remove_entry or save on such an instance.
C19_Witness ==
    /\ ~hist.loaded
    /\ ~hist.added
    /\ file # <<>>
    /\ \/ last.op = "load" /\ last.err # "none"
       \/ last.op \in {"remove_entry", "save"}
    /\ entries = <<>>

\* C19: add_entry was called on an instance on which neither load nor
\* create has succeeded, over a file holding a vault; the list is not empty.
C19_WitnessAdded ==
    /\ ~hist.loaded
    /\ last.op = "add_entry"
    /\ file # <<>>
    /\ entries # <<>>

\* C18: init on a path that holds a file prints the already-exists error,
\* exits with code 1 and leaves the file and the record of its last writer
\* as they were.
C18_InitKeepsVault ==
    (cli.cmd = "init" /\ cli.before # <<>>) =>
        /\ cli.exit = 1
        /\ cli.msg = "already_exists"
        /\ file = cli.before
        /\ \E p \in CliVaultPasswords \cup CliPasswords :
               ReadVault(file, p) = [err |-> "none", list |-> written.list]

\* C18: init with a valid DOTP_PASSWD on a vault that holds an entry under
\* another password.
C18_Witness ==
    /\ cli.cmd = "init"
    /\ cli.before # <<>>
    /\ validate_password(cli.env)
    /\ cli.env # written.pw
    /\ written.list # <<>>
    /\ cli.exit = 1
    /\ file = cli.before

\* The entries stored in the vault file.
StoredEntries ==
    IF file = <<>> THEN <<>> ELSE ReadVault(file, written.pw).list

\* C20 (as stated): after any sequence of init, add and import commands no
\* two entries stored in the vault have percent-decoded labels that are
\* equal ignoring case.
C20_UniqueDecoded ==
    \A i, j \in 1..Len(StoredEntries) :
        i < j => Lower(Unquote(StoredEntries[i].label))
                     # Lower(Unquote(StoredEntries[j].label))

\* C20: what the check before insert does give: the raw label of an entry
\* differs, ignoring case, from the decoded label of every entry stored
\* before it.
C20_LaterRawDiffers ==
    \A i, j \in 1..Len(StoredEntries) :
        i < j => Lower(Unquote(StoredEntries[i].label))
                     # Lower(StoredEntries[j].label)

\* C20: add succeeded with the label "%41" on a vault that already stored
\* the label "%41"; the vault holds the label twice.
C20_Witness ==
    /\ cli.cmd = "add"
    /\ cli.exit = 0
    /\ cli.arg = <<37, 52, 49>>
    /\ Len(StoredEntries) = 2
    /\ StoredEntries[1].label = <<37, 52, 49>>
    /\ StoredEntries[2].label = <<37, 52, 49>>

\* C21 (as stated): the add action of the TUI rejects the new entry exactly
\* when get_entry_exact finds a stored entry for its label; otherwise the
\* entry is appended and the list saved.
C21_TuiAddExact ==
    tui.act = "add" =>
        IF ExactMatch(tui.pre, tui.arg) # <<>>
        THEN tui.note = "exists" /\ entries = tui.pre
        ELSE /\ tui.note # "exists"
             /\ entries = Append(tui.pre, CliEntry(tui.arg))
             /\ ReadVault(file, tui.pw) = [err |-> "none", list |-> entries]

\* C21: what holds: the add action rejects the new entry exactly when
\* get_entry finds a stored entry, by exact or by prefix match.
C21_TuiAddPrefix ==
    tui.act = "add" =>
        IF EntryMatch(tui.pre, tui.arg) # <<>>
        THEN tui.note = "exists" /\ entries = tui.pre
        ELSE /\ tui.note # "exists"
             /\ entries = Append(tui.pre, CliEntry(tui.arg))
             /\ ReadVault(file, tui.pw) = [err |-> "none", list |-> entries]

\* C21: the label "A" was rejected as existing on a vault whose only entry
\* is "A4".
C21_Witness ==
    /\ tui.act = "add"
    /\ tui.arg = <<65>>
    /\ tui.pre = <<CliEntry(<<65, 52>>)>>
    /\ ExactMatch(tui.pre, tui.arg) = <<>>
    /\ tui.note = "exists"
    /\ entries = tui.pre

\* C24: for every string M and every password P, decrypt_data(c, P, salt)
\* with (c, salt) the pair encrypt_data(M, P) returned gives back M.
C24_EncryptDecrypt ==
    (cr.stage = "decrypted" /\ cr.tok = cr.orig /\ cr.pw2 = cr.pw)
    => (cr.err = "none" /\ cr.out = <<cr.data>>)

\* A string with characters of two and three UTF-8 bytes came back from
\* decrypt_data under the password it was encrypted with.
C24_Witness ==
    /\ cr.stage = "decrypted"
    /\ cr.tok = cr.orig
    /\ cr.pw2 = cr.pw
    /\ cr.data = Text(<<116, 233, 8364>>)
    /\ cr.tok[1].ct.pt = [t |-> "bytes", b |-> <<116, 195, 169, 226, 130, 172>>]
    /\ cr.out = <<cr.data>>

\* ------------------------------------------------- the salts of os.urandom

\* Calls of os.urandom(16) followed in the salt specification.
MaxDraws == 3

\* os.urandom(16) returns 128 bits of the system's generator; a value it
\* returned before comes back with probability 2^-128 per pair of calls, and
\* the specification takes the draws as pairwise different: each draw is any
\* value not drawn before.
SaltPool == 1..MaxDraws

\* What rng becomes when a write to the file draws salt s: seen collects the
\* salts the file has held up to the operation.
Drawn(s) ==
    [rng EXCEPT !.drawn = @ \cup {s},
                !.seen = @ \cup { file[k].salt : k \in 1..Len(file) }]

\* encrypt_data(M, P) called on its own; the call is kept with its result.
SaltEncrypt(m, password, s, iv, now) ==
    /\ s \in SaltPool \ rng.drawn
    /\ LET c == encrypt_data(m, password, s, iv, now)
       IN  rng' = [rng EXCEPT
                      !.drawn = @ \cup {s},
                      !.calls = @ \o <<[data |-> m, pw |-> password,
                                         salt |-> c.salt,
                                         encrypted |-> c.encrypted]>>]
    /\ UNCHANGED <<entries, file, written, last, cr>>

\* Vault.create(P), its salt drawn by encrypt_data.
SaltCreate(password, s, iv, now) ==
    /\ s \in SaltPool \ rng.drawn
    /\ Create(password, s, iv, now)
    /\ rng' = Drawn(s)

\* Vault.save(P), its salt drawn by encrypt_data.
SaltSave(password, s, iv, now) ==
    /\ s \in SaltPool \ rng.drawn
    /\ Save(password, s, iv, now)
    /\ rng' = Drawn(s)

\* Vault.load(P): no draw; the salt read is the file's.
SaltLoad(password) ==
    /\ Load(password)
    /\ rng' = [rng EXCEPT !.seen = @ \cup { file[k].salt : k \in 1..Len(file) }]

\* The strings encrypt_data is called with on its own.
SaltMessages == { JInvalid, DumpsVault(<<>>) }

NextSalt ==
    \/ \E m \in SaltMessages, p \in Passwords, s \in SaltPool, i \in StoreIVs,
          t \in StoreTimes :
           SaltEncrypt(m, p, s, i, t) /\ UNCHANGED <<pf, held, hist, cli, tui, peer>>
    \/ \E p \in Passwords, s \in SaltPool, i \in StoreIVs, t \in StoreTimes :
           SaltCreate(p, s, i, t) /\ UNCHANGED <<pf, held, hist, cli, tui, peer>>
    \/ \E p \in Passwords, s \in SaltPool, i \in StoreIVs, t \in StoreTimes :
           SaltSave(p, s, i, t) /\ UNCHANGED <<pf, held, hist, cli, tui, peer>>
    \/ \E p \in Passwords : SaltLoad(p) /\ UNCHANGED <<pf, held, hist, cli, tui, peer>>
    \/ AddEntry(CliEntry(<<65>>)) /\ UNCHANGED <<pf, held, hist, cli, tui, rng, peer>>

SpecSalt == Init /\ [][NextSalt]_vars

\* C22: any two calls of encrypt_data, also two with the same data and the
\* same password, return different salts and different ciphertexts.
C22_FreshSalt ==
    \A i, j \in 1..Len(rng.calls) :
        i # j => /\ rng.calls[i].salt # rng.calls[j].salt
                 /\ rng.calls[i].encrypted # rng.calls[j].encrypted

\* encrypt_data was called twice with the same data and password, and
\* Fernet drew the same iv at the same second both times.
C22_Witness ==
    /\ Len(rng.calls) >= 2
    /\ rng.calls[1].data = rng.calls[2].data
    /\ rng.calls[1].pw = rng.calls[2].pw
    /\ rng.calls[1].encrypted.iv = rng.calls[2].encrypted.iv
    /\ rng.calls[1].encrypted.ts = rng.calls[2].encrypted.ts

\* C23: a save never writes a salt the file held before it: not the salt a
\* preceding load read, nor one an earlier create or save wrote.
C23_SaveNewSalt ==
    (last.op = "save" /\ last.err = "none")
    => (file # <<>> /\ file[1].salt \notin rng.seen)

\* A save followed a create and a load of the created file under the same
\* password, and the file still opens under that password.
C23_Witness ==
    /\ last.op = "save"
    /\ written.by = "save"
    /\ Cardinality(rng.seen) >= 1
    /\ Cardinality(rng.drawn) >= 2
    /\ Len(entries) >= 1
    /\ file[1].salt = written.salt
    /\ DecodeVault(file, written.pw).list = entries

\* ------------------------------------------------- two processes, one path

\* The password both processes use.
PeerPassword == "123456"

\* The file between open(mode='wb') and the write: it exists and has no bytes.
\* The salt and the token read from it are empty, and Fernet rejects the
\* empty token at the version byte.
EmptyFile ==
    <<[salt |-> "",
       token |-> [ver |-> 0, ts |-> 0, iv |-> "", ct |-> <<>>, mac |-> <<>>,
                  junk |-> 0]]>>

\* The bytes of f written over the start of a file that holds the longer
\* content g: the token of f followed by the tail of g, which is no token
\* Fernet authenticates.
Overwritten(f, g) ==
    <<[salt |-> f[1].salt, token |-> [f[1].token EXCEPT !.mac.x = 1]]>>

\* Path.write_bytes after open: the bytes go to offset 0 of the file as it is
\* now.  The file is empty unless the other process wrote it since the open;
\* a payload grows with the number of entries.
WriteAtStart(f, flist, g, glist) ==
    IF g = EmptyFile \/ g = <<>> \/ Len(glist) <= Len(flist) THEN f
    ELSE Overwritten(f, g)

\* Vault.load(P) in the first process.  Kept in peer: the step the save of the
\* second process was at, whether the bytes read were all the bytes of a
\* write, and whether the load read the file as it was created.
OwnLoad ==
    /\ Load(PeerPassword)
    /\ peer' = [peer EXCEPT !.during = peer.saving,
                            !.intact = (file # EmptyFile),
                            !.ownloaded = (last'.err = "none"
                                               /\ peer.savers = {})]

\* Vault.save(P) in the first process: open, write and close with no step of
\* the second process in between.
OwnSave ==
    /\ Save(PeerPassword, "salt1", "iv1", 1700000000)
    /\ peer' = [peer EXCEPT !.lastsave = "own", !.savers = @ \cup {"own"},
                            !.overlap = peer.saving # "idle"]

\* Vault.load(P) in the second process.
PeerLoad ==
    /\ peer.saving = "idle"
    /\ LET r == LoadResult(file, PeerPassword, peer.entries)
       IN  peer' = [peer EXCEPT !.entries = r.entries, !.err = r.err,
                                !.loaded = (r.err = "none" /\ peer.savers = {})]
    /\ UNCHANGED <<entries, file, written, last, cr>>

\* add_entry in the second process.
PeerAdd(e) ==
    /\ peer.saving = "idle"
    /\ Len(peer.entries) < MaxEntries
    /\ peer' = [peer EXCEPT !.entries = Append(@, e)]
    /\ UNCHANGED <<entries, file, written, last, cr>>

\* Vault.save(P) in the second process, up to write_bytes opening the file:
\* the data are encrypted, and open(mode='wb') truncates the file.
PeerSaveOpen ==
    /\ peer.saving = "idle"
    /\ peer' = [peer EXCEPT
                   !.saving = "opened",
                   !.oldok = (file # <<>>
                                 /\ DecodeVault(file, PeerPassword).err = "none"),
                   !.list = peer.entries,
                   !.data = VaultData(encrypt_data(DumpsVault(peer.entries),
                                                   PeerPassword, "salt2", "iv1",
                                                   1700000000)),
                   !.overlap = FALSE]
    /\ file' = EmptyFile
    /\ UNCHANGED <<entries, written, last, cr>>

\* The rest of write_bytes in the second process: write and close.
PeerSaveWrite ==
    /\ peer.saving = "opened"
    /\ file' = WriteAtStart(peer.data, peer.list, file,
                            IF peer.overlap THEN written.list ELSE <<>>)
    /\ peer' = [peer EXCEPT !.saving = "idle", !.lastsave = "peer",
                            !.savers = @ \cup {"peer"}]
    /\ UNCHANGED <<entries, written, last, cr>>

NextPeer ==
    \/ \E s \in {"salt1"} :
           Create(PeerPassword, s, "iv1", 1700000000)
               /\ file = <<>> /\ UNCHANGED <<pf, held, hist, cli, tui, rng, peer>>
    \/ OwnLoad /\ UNCHANGED <<pf, held, hist, cli, tui, rng>>
    \/ AddEntry(CliEntry(<<65>>)) /\ UNCHANGED <<pf, held, hist, cli, tui, rng, peer>>
    \/ OwnSave /\ UNCHANGED <<pf, held, hist, cli, tui, rng>>
    \/ PeerLoad /\ UNCHANGED <<pf, held, hist, cli, tui, rng>>
    \/ PeerAdd(CliEntry(<<66>>)) /\ UNCHANGED <<pf, held, hist, cli, tui, rng>>
    \/ PeerSaveOpen /\ UNCHANGED <<pf, held, hist, cli, tui, rng>>
    \/ PeerSaveWrite /\ UNCHANGED <<pf, held, hist, cli, tui, rng>>

SpecPeer == Init /\ [][NextPeer]_vars

\* C25: a load that runs while a save of another process is in progress
\* reads the complete previous content of the file or the complete new
\* content, and never an empty or partly written file.
C25_AtomicSave ==
    (last.op = "load" /\ peer.during # "idle" /\ peer.oldok)
    => (peer.intact /\ last.err = "none")

\* A load under the right password ran between the open and the write of a
\* save that replaced a loadable file: it read no bytes and raised
\* InvalidToken.
C25_Witness ==
    /\ last.op = "load"
    /\ peer.during = "opened"
    /\ peer.oldok
    /\ ~peer.intact
    /\ file = EmptyFile
    /\ last.err = "InvalidToken"

MaxLines == 2

\* A line after strip(), as urlparse and parse_qs take it apart: the text
\* before "?" following "otpauth://totp" (path), and the name=value pairs of
\* the query in the order written.  kind tells an otpauth line from an empty
\* line and from any other text.
Line(kind, path, query) == [kind |-> kind, path |-> path, query |-> query]

\* One name=value pair of a query.
Param(k, v) == [k |-> k, v |-> v]

\* path.lstrip("/")
RECURSIVE LStripSlash(_)
LStripSlash(s) ==
    IF s # <<>> /\ Head(s) = 47 THEN LStripSlash(Tail(s)) ELSE s

\* parse_qs(query).get(k, [default])[0]: the first value written for k that
\* is not blank (parse_qs drops blank values), else the default.
RECURSIVE QsFirst(_, _, _)
QsFirst(query, k, default) ==
    IF query = <<>> THEN default
    ELSE IF Head(query).k = k /\ Head(query).v # <<>> THEN Head(query).v
    ELSE QsFirst(Tail(query), k, default)

\* int(v) raises ValueError unless v is decimal digits with an optional sign
\* (ASCII digits; the inputs hold no spaces, underscores or other digits).
IsInt(v) ==
    LET d == IF v # <<>> /\ Head(v) \in {43, 45} THEN Tail(v) ELSE v
    IN  d # <<>> /\ \A i \in 1..Len(d) : d[i] >= 48 /\ d[i] <= 57

\* The value of a string of decimal digits.
RECURSIVE DigitsValue(_)
DigitsValue(d) ==
    IF d = <<>> THEN 0
    ELSE 10 * DigitsValue(SubSeq(d, 1, Len(d) - 1)) + (d[Len(d)] - 48)

\* int(v) for a v that IsInt accepts.
IntOf(v) ==
    IF Head(v) = 45 THEN 0 - DigitsValue(Tail(v))
    ELSE IF Head(v) = 43 THEN DigitsValue(Tail(v))
    ELSE DigitsValue(v)

\* parse_otpauth_uri(uri): the entry, or the error int() raised.
parse_otpauth_uri(line) ==
    LET label == Unquote(LStripSlash(line.path))
        secret == QsFirst(line.query, "secret", <<>>)
        period == QsFirst(line.query, "period", <<51, 48>>)
        digits == QsFirst(line.query, "digits", <<54>>)
        algorithm == QsFirst(line.query, "algorithm", SHA1)
    IN  IF ~IsInt(period) \/ ~IsInt(digits)
        THEN [err |-> "ValueError", entry |-> <<>>]
        ELSE [err |-> "none",
              entry |-> <<TOTPEntry(label, secret, IntOf(digits), algorithm,
                                    IntOf(period))>>]

\* import_from_text: the loop over the lines of the file.
RECURSIVE import_from_text(_)
import_from_text(lines) ==
    IF lines = <<>> THEN <<>>
    ELSE LET line == Head(lines)
             rest == import_from_text(Tail(lines))
         IN  IF line.kind # "otpauth" THEN rest
             ELSE IF parse_otpauth_uri(line).err # "none" THEN rest
             ELSE parse_otpauth_uri(line).entry \o rest

\* Lines of the files imported:
\*   otpauth://totp/A?secret=JB&period=60&digits=8&algorithm=SHA256
\*   otpauth://totp/%41?secret=JB
\*   otpauth://totp/B?period=60           (no secret)
\*   otpauth://totp/B?secret=&digits=8    (blank secret)
\*   otpauth://totp/B?secret=JB&digits=x
\*   otpauth://totp/B?secret=JB&period=3.5
\*   otpauth://totp/B?secret=JB&digits=   (blank digits)
\*   otpauth://totp/?secret=JB            (no label)
\*   an empty line, and "# comment".
ImportLines ==
    { Line("otpauth", <<47, 65>>,
           <<Param("secret", <<74, 66>>), Param("period", <<54, 48>>),
             Param("digits", <<56>>), Param("algorithm", SHA256)>>),
      Line("otpauth", <<47, 37, 52, 49>>, <<Param("secret", <<74, 66>>)>>),
      Line("otpauth", <<47, 66>>, <<Param("period", <<54, 48>>)>>),
      Line("otpauth", <<47, 66>>,
           <<Param("secret", <<>>), Param("digits", <<56>>)>>),
      Line("otpauth", <<47, 66>>,
           <<Param("secret", <<74, 66>>), Param("digits", <<120>>)>>),
      Line("otpauth", <<47, 66>>,
           <<Param("secret", <<74, 66>>), Param("period", <<51, 46, 53>>)>>),
      Line("otpauth", <<47, 66>>,
           <<Param("secret", <<74, 66>>), Param("digits", <<>>)>>),
      Line("otpauth", <<47>>, <<Param("secret", <<74, 66>>)>>),
      Line("blank", <<>>, <<>>),
      Line("other", <<>>, <<>>) }

\* The files: up to MaxLines lines.
ImportFiles == UNION { [1..n -> ImportLines] : n \in 0..MaxLines }

\* import_from_text(file_path) called on its own.
ImportTextCall(lines) ==
    /\ pf' = Pure("import_from_text", lines, "none", import_from_text(lines))
    /\ UNCHANGED <<entries, file, written, last, cr, held, hist, cli, tui, rng, peer>>

\* parse_otpauth_uri(uri) called on its own.
ParseUriCall(line) ==
    /\ pf' = Pure("parse_otpauth_uri", line, parse_otpauth_uri(line).err,
                  parse_otpauth_uri(line).entry)
    /\ UNCHANGED <<entries, file, written, last, cr, held, hist, cli, tui, rng, peer>>

\* str(n) of an int.
RECURSIVE NatStr(_)
NatStr(n) ==
    IF n < 10 THEN <<48 + n>> ELSE NatStr(n \div 10) \o <<48 + (n % 10)>>

IntStr(n) == IF n < 0 THEN <<45>> \o NatStr(0 - n) ELSE NatStr(n)

\* export_to_otpauth(entry): the f-string
\* otpauth://totp/{label}?period={period}&digits={digits}&algorithm={algorithm}&secret={secret}
\* with the fields written as they are.
export_to_otpauth(entry) ==
    <<111, 116, 112, 97, 117, 116, 104, 58, 47, 47, 116, 111, 116, 112, 47>>
        \o entry.label
        \o <<63, 112, 101, 114, 105, 111, 100, 61>> \o IntStr(entry.period)
        \o <<38, 100, 105, 103, 105, 116, 115, 61>> \o IntStr(entry.digits)
        \o <<38, 97, 108, 103, 111, 114, 105, 116, 104, 109, 61>>
        \o entry.algorithm
        \o <<38, 115, 101, 99, 114, 101, 116, 61>> \o entry.secret

\* s.find(c), counted from 1; 0 when c is not in s.
Find(s, c) == FirstIndex({i \in 1..Len(s) : s[i] = c})

\* s.split(c, 1): the part before the first c and the part after it; all of
\* s and the empty string when c is not in s.
SplitOnce(s, c) ==
    IF Find(s, c) = 0 THEN [head |-> s, tail |-> <<>>]
    ELSE [head |-> SubSeq(s, 1, Find(s, c) - 1),
          tail |-> SubSeq(s, Find(s, c) + 1, Len(s))]

\* s.split(c)
RECURSIVE Split(_, _)
Split(s, c) ==
    IF Find(s, c) = 0 THEN <<s>>
    ELSE <<SplitOnce(s, c).head>> \o Split(SplitOnce(s, c).tail, c)

\* urlparse(uri) for a uri "scheme:..." (the inputs hold no tab, newline or
\* leading blank, which urlsplit strips): the scheme up to the first colon,
\* the netloc after "//" up to the first "/", "?" or "#", then the fragment
\* after the first "#" and the query after the first "?"; otpauth takes no
\* ";" parameters.
urlparse(uri) ==
    LET rest == SplitOnce(uri, 58).tail
        hasnet == Len(rest) >= 2 /\ rest[1] = 47 /\ rest[2] = 47
        after == IF hasnet THEN SubSeq(rest, 3, Len(rest)) ELSE rest
        d == FirstIndex({i \in 1..Len(after) : after[i] \in {47, 63, 35}})
        url == IF ~hasnet THEN rest
               ELSE IF d = 0 THEN <<>>
               ELSE SubSeq(after, d, Len(after))
        f == SplitOnce(url, 35)
        q == SplitOnce(f.head, 63)
    IN  [scheme |-> SplitOnce(uri, 58).head,
         netloc |-> IF ~hasnet THEN <<>>
                    ELSE IF d = 0 THEN after
                    ELSE SubSeq(after, 1, d - 1),
         path |-> q.head, query |-> q.tail, fragment |-> f.tail]

\* The name of a query field as parse_otpauth_uri asks for it.
QsKey(name) ==
    IF name = <<115, 101, 99, 114, 101, 116>> THEN "secret"
    ELSE IF name = <<112, 101, 114, 105, 111, 100>> THEN "period"
    ELSE IF name = <<100, 105, 103, 105, 116, 115>> THEN "digits"
    ELSE IF name = <<97, 108, 103, 111, 114, 105, 116, 104, 109>> THEN "algorithm"
    ELSE "other"

\* name.replace("+", " ") and value.replace("+", " ") in parse_qsl
PlusToSpace(s) == [i \in 1..Len(s) |-> IF s[i] = 43 THEN 32 ELSE s[i]]

\* parse_qs(query): the fields between "&" that hold "=", split at the first
\* "=", with "+" read as a blank and percent escapes decoded; QsFirst drops
\* the blank values.
parse_qs(query) ==
    LET fields == SelectSeq(Split(query, 38), LAMBDA f : Find(f, 61) # 0)
    IN  [i \in 1..Len(fields) |->
            Param(QsKey(Unquote(PlusToSpace(SplitOnce(fields[i], 61).head))),
                  Unquote(PlusToSpace(SplitOnce(fields[i], 61).tail)))]

\* parse_otpauth_uri on the text of a uri: urlparse and parse_qs, then the
\* fields as above.
ParseUriText(uri) ==
    parse_otpauth_uri(Line("otpauth", urlparse(uri).path,
                           parse_qs(urlparse(uri).query)))

\* Entries exported: the labels "A", "A B", "%41", "a#b", "a?b" and "/A",
\* each with default and with other digits, algorithm and period.
ExportEntries ==
    { TOTPEntry(l, <<74, 66>>, d, a, p) :
        l \in { <<65>>, <<65, 32, 66>>, <<37, 52, 49>>, <<97, 35, 98>>,
                <<97, 63, 98>>, <<47, 65>> },
        d \in {6, 8}, a \in {SHA1, SHA256}, p \in {30, 60} }

\* parse_otpauth_uri(export_to_otpauth(e))
ExportImportCall(e) ==
    /\ pf' = Pure("export_import", e, ParseUriText(export_to_otpauth(e)).err,
                  IF ParseUriText(export_to_otpauth(e)).err = "none"
                  THEN ParseUriText(export_to_otpauth(e)).entry[1] ELSE <<>>)
    /\ UNCHANGED <<entries, file, written, last, cr, held, hist, cli, tui, rng, peer>>

NextImport ==
    \/ \E lines \in ImportFiles : ImportTextCall(lines)
    \/ \E line \in { l \in ImportLines : l.kind = "otpauth" } : ParseUriCall(line)
    \/ \E e \in ExportEntries : ExportImportCall(e)

SpecImport == Init /\ [][NextImport]_vars

\* A record with its required fields, and integers where integers belong:
\* an otpauth line that names a secret and whose digits and period, where
\* written, are integers.
WellFormed(line) ==
    /\ line.kind = "otpauth"
    /\ \E i \in 1..Len(line.query) :
           line.query[i].k = "secret" /\ line.query[i].v # <<>>
    /\ \A i \in 1..Len(line.query) :
           (line.query[i].k \in {"digits", "period"} /\ line.query[i].v # <<>>)
               => IsInt(line.query[i].v)

\* The entries of the well-formed lines, in file order.
RECURSIVE WellFormedEntries(_)
WellFormedEntries(lines) ==
    IF lines = <<>> THEN <<>>
    ELSE (IF WellFormed(Head(lines)) THEN parse_otpauth_uri(Head(lines)).entry
          ELSE <<>>) \o WellFormedEntries(Tail(lines))

\* C27: import_from_text skips every malformed record (no secret, or digits
\* or period that is no integer) and continues: it returns the entries of the
\* well-formed lines, in file order, and nothing for a malformed record.
C27_SkipsMalformed ==
    pf.fn = "import_from_text"
    => pf.out = <<WellFormedEntries(pf.arg[1])>>

\* What import_from_text does skip: the lines where int() raised; every
\* other otpauth line yields an entry, in file order, with an empty secret
\* where the line names none.
C27_SkipsNonInteger ==
    pf.fn = "import_from_text"
    => LET lines == pf.arg[1]
           kept == { i \in 1..Len(lines) :
                       /\ lines[i].kind = "otpauth"
                       /\ IsInt(QsFirst(lines[i].query, "digits", <<54>>))
                       /\ IsInt(QsFirst(lines[i].query, "period", <<51, 48>>)) }
           out == pf.out[1]
       IN  /\ Len(out) = Cardinality(kept)
           /\ \A i \in kept :
                  LET n == Cardinality({ j \in kept : j <= i })
                  IN  /\ out[n].label = Unquote(LStripSlash(lines[i].path))
                      /\ out[n].secret = QsFirst(lines[i].query, "secret", <<>>)

\* A file of a line without secret followed by a well-formed line was
\* imported: both lines gave an entry, the first with an empty secret.
C27_Witness ==
    /\ pf.fn = "import_from_text"
    /\ Len(pf.arg[1]) = 2
    /\ ~WellFormed(pf.arg[1][1])
    /\ WellFormed(pf.arg[1][2])
    /\ Len(pf.out[1]) = 2
    /\ pf.out[1][1].secret = <<>>
    /\ pf.out[1][2].secret = <<74, 66>>

\* C28: to_dict yields a record with exactly the five keys label, secret,
\* digits, algorithm and period, and from_dict(to_dict(e)) equals e.
C28_RecordRoundTrip ==
    /\ pf.fn = "to_dict"
       => /\ pf.out # <<>>
          /\ DOMAIN pf.out[1].d = {"label", "secret", "digits", "algorithm", "period"}
          /\ \A f \in FieldSet : Untag(pf.out[1].d[f]) = pf.arg[1][f]
    /\ pf.fn = "round_trip" => (pf.err = "none" /\ pf.out = pf.arg)

\* An entry with digits 8, algorithm SHA256 and period 60, none of them the
\* default, came back from from_dict(to_dict(e)).
C28_Witness ==
    /\ pf.fn = "round_trip"
    /\ pf.arg[1].digits = 8
    /\ pf.arg[1].algorithm = SHA256
    /\ pf.arg[1].period = 60
    /\ pf.out = pf.arg

\* ------------------------------------------------- config.py: vault path

\* Path(s): the empty string is the current directory; the other strings of
\* the inputs are paths in normal form.
Path(s) == IF s = "" THEN "." ELSE s

\* The config file at XDG_CONFIG_HOME/dotp/config.toml: absent; no TOML;
\* TOML without vault_path; with vault_path = "/f"; with vault_path = "".
ConfigFiles ==
    { [kind |-> "absent", vault_path |-> <<>>],
      [kind |-> "invalid", vault_path |-> <<>>],
      [kind |-> "toml", vault_path |-> <<>>],
      [kind |-> "toml", vault_path |-> <<"/f">>],
      [kind |-> "toml", vault_path |-> <<"">>] }

\* Config.load(): the error tomllib raises, or the vault_path of the
\* configuration (<<>> for None).
ConfigLoad(cfgfile) ==
    IF cfgfile.kind = "absent" THEN [err |-> "none", vault_path |-> <<>>]
    ELSE IF cfgfile.kind = "invalid"
         THEN [err |-> "TOMLDecodeError", vault_path |-> <<>>]
    ELSE IF cfgfile.vault_path = <<>> THEN [err |-> "none", vault_path |-> <<>>]
    ELSE [err |-> "none", vault_path |-> <<Path(cfgfile.vault_path[1])>>]

\* What get_default_vault_path reads: the argument (<<>> for None), the
\* DOTP_VAULT variable (<<>> when unset), the config file, whether
\* ./.vault.dotp exists, and the directory xdg_config_home() returns.
PathInputs ==
    [custom : {<<>>, <<"/c">>},
     env : {<<>>, <<"">>, <<"/e">>},
     cfgfile : ConfigFiles,
     local : BOOLEAN,
     xdg : {"/x", "/home/u/.config"}]

\* Faulty variant: DOTP_VAULT is consulted before the argument.
get_default_vault_pathEnvFirst(in) ==
    IF in.env # <<>> /\ in.env[1] # ""
    THEN [err |-> "none", path |-> <<Path(in.env[1])>>]
    ELSE IF in.custom # <<>> THEN [err |-> "none", path |-> in.custom]
    ELSE LET config == ConfigLoad(in.cfgfile)
         IN  IF config.err # "none" THEN [err |-> config.err, path |-> <<>>]
             ELSE IF config.vault_path # <<>>
                  THEN [err |-> "none", path |-> config.vault_path]
             ELSE IF in.local THEN [err |-> "none", path |-> <<".vault.dotp">>]
             ELSE [err |-> "none", path |-> <<in.xdg, "dotp", ".vault.dotp">>]

\* get_default_vault_path(custom_path); a Path is always true, a str is
\* true when it is not empty.  The path returned is kept as its parts.
get_default_vault_path(in) ==
    IF in.custom # <<>> THEN [err |-> "none", path |-> in.custom]
    ELSE IF in.env # <<>> /\ in.env[1] # ""
         THEN [err |-> "none", path |-> <<Path(in.env[1])>>]
    ELSE LET config == ConfigLoad(in.cfgfile)
         IN  IF config.err # "none" THEN [err |-> config.err, path |-> <<>>]
             ELSE IF config.vault_path # <<>>
                  THEN [err |-> "none", path |-> config.vault_path]
             ELSE IF in.local THEN [err |-> "none", path |-> <<".vault.dotp">>]
             ELSE [err |-> "none", path |-> <<in.xdg, "dotp", ".vault.dotp">>]

\* get_default_vault_path called on its own.
VaultPathCall(in) ==
    /\ pf' = [fn |-> "get_default_vault_path", arg |-> <<in>>,
              err |-> get_default_vault_path(in).err,
              out |-> get_default_vault_path(in).path]
    /\ UNCHANGED <<entries, file, written, last, cr, held, hist, cli, tui, rng, peer>>

NextPath == \E in \in PathInputs : VaultPathCall(in)

SpecPath == Init /\ [][NextPath]_vars

\* C29: get_default_vault_path returns the custom path if one is given;
\* else DOTP_VAULT if set and not empty; else the vault_path of the config
\* file if set; else ./.vault.dotp if it exists; else
\* XDG_CONFIG_HOME/dotp/.vault.dotp.  (A config file that is no TOML makes
\* the third step raise.)
C29_Precedence ==
    pf.fn = "get_default_vault_path"
    => LET in == pf.arg[1]
           useCustom == in.custom # <<>>
           useEnv == ~useCustom /\ in.env \notin {<<>>, <<"">>}
           readable == in.cfgfile.kind # "invalid"
           useConfig == ~useCustom /\ ~useEnv /\ readable
                            /\ in.cfgfile.vault_path # <<>>
           useLocal == ~useCustom /\ ~useEnv /\ readable /\ ~useConfig
                           /\ in.local
       IN  /\ useCustom => (pf.err = "none" /\ pf.out = <<"/c">>)
           /\ useEnv => (pf.err = "none" /\ pf.out = <<"/e">>)
           /\ useConfig
              => /\ pf.err = "none"
                 /\ pf.out = <<Path(in.cfgfile.vault_path[1])>>
           /\ useLocal => (pf.err = "none" /\ pf.out = <<".vault.dotp">>)
           /\ (~useCustom /\ ~useEnv /\ readable /\ ~useConfig /\ ~useLocal)
              => /\ pf.err = "none"
                 /\ pf.out = <<in.xdg, "dotp", ".vault.dotp">>
           /\ pf.err # "none" => (~useCustom /\ ~useEnv /\ ~readable)

\* The argument was given while DOTP_VAULT, the config file and the local
\* file all name a vault as well: the argument was returned.
C29_Witness ==
    /\ pf.fn = "get_default_vault_path"
    /\ pf.arg[1].custom = <<"/c">>
    /\ pf.arg[1].env = <<"/e">>
    /\ pf.arg[1].cfgfile.vault_path = <<"/f">>
    /\ pf.arg[1].local
    /\ pf.out = <<"/c">>

\* DOTP_VAULT was set to the empty string and the config file named "/f":
\* the path of the config file was returned.
C29_WitnessEmptyEnv ==
    /\ pf.fn = "get_default_vault_path"
    /\ pf.arg[1].custom = <<>>
    /\ pf.arg[1].env = <<"">>
    /\ pf.arg[1].local
    /\ pf.out = <<"/f">>

\* C30 as stated: right after every successful create, load or save the
\* entries of the instance equal the list the file decrypts to, whatever was
\* called on the instance before.
C30_InSync ==
    (last.op \in {"create", "load", "save"} /\ last.err = "none")
    => (file # <<>> /\ DecodeVault(file, last.pw) = [err |-> "none", list |-> entries])

\* C30 amended: that holds right after every successful load and save.
\* Right after create the file decrypts to the empty list and the entries of
\* the instance are the ones it held before the call, so the two are equal
\* only if the instance held none.
C30_LoadSaveInSync ==
    /\ (last.op \in {"load", "save"} /\ last.err = "none")
       => /\ file # <<>>
          /\ DecodeVault(file, last.pw) = [err |-> "none", list |-> entries]
    /\ last.op = "create"
       => /\ last.err = "none"
          /\ file # <<>>
          /\ DecodeVault(file, last.pw) = [err |-> "none", list |-> <<>>]
          /\ entries = last.pre

\* create was called on an instance that holds an entry: the file decrypts
\* to the empty list and the instance still holds the entry.
C30_Witness ==
    /\ last.op = "create"
    /\ last.err = "none"
    /\ entries # <<>>
    /\ DecodeVault(file, last.pw).list = <<>>

\* save was called on an instance that had loaded and then added an entry:
\* the file decrypts to the list of the instance.
C30_WitnessSave ==
    /\ last.op = "save"
    /\ hist.loaded /\ hist.added
    /\ Len(entries) = 2
    /\ DecodeVault(file, last.pw).list = entries

\* Six characters, each one of the decimal digits 0 to 9.
SixDecimalDigits(password) ==
    Len(password) = 6 /\ \A i \in 1..Len(password) :
                             password[i] >= 48 /\ password[i] <= 57

\* C31 as stated: init creates a vault only under a password of exactly six
\* decimal digits: a DOTP_PASSWD that is not six digits ends init with an
\* error and no file written, and a typed password is accepted only when it
\* is six digits and repeated identically.
C31_SixDigitPassword ==
    cli.cmd = "init"
    => /\ cli.msg = "created" => SixDecimalDigits(cli.pw)
       /\ (cli.env # <<>> /\ ~SixDecimalDigits(cli.env))
          => (cli.exit = 1 /\ file = cli.before)
       /\ (cli.msg = "created" /\ cli.env = <<>>)
          => /\ cli.arg # <<>>
             /\ cli.arg[Len(cli.arg)].pw = cli.pw
             /\ cli.arg[Len(cli.arg)].repeat = cli.pw

\* C31: what holds: the same with "six characters for which str.isdigit()
\* is true" in the place of "six decimal digits"; every round before the
\* last was refused.
C31_IsDigitPassword ==
    cli.cmd = "init"
    => /\ cli.msg = "created" => validate_password(cli.pw)
       /\ (cli.env # <<>> /\ ~validate_password(cli.env))
          => (cli.exit = 1 /\ file = cli.before)
       /\ (cli.msg = "created" /\ cli.env = <<>>)
          => /\ cli.arg # <<>>
             /\ cli.arg[Len(cli.arg)].pw = cli.pw
             /\ cli.arg[Len(cli.arg)].repeat = cli.pw
             /\ \A k \in 1..(Len(cli.arg) - 1) :
                    \/ ~validate_password(cli.arg[k].pw)
                    \/ cli.arg[k].pw # cli.arg[k].repeat

\* init created a vault under DOTP_PASSWD = "1" superscript-two "3456", and the
\* file opens under that password.
C31_Witness ==
    /\ cli.cmd = "init"
    /\ cli.msg = "created"
    /\ cli.exit = 0
    /\ cli.env = <<49, 178, 51, 52, 53, 54>>
    /\ cli.before = <<>>
    /\ file # <<>>
    /\ DecodeVault(file, cli.env) = [err |-> "none", list |-> <<>>]

\* The same password typed twice at the prompts after a round whose repeat
\* differed.
C31_WitnessTyped ==
    /\ cli.cmd = "init"
    /\ cli.msg = "created"
    /\ cli.env = <<>>
    /\ Len(cli.arg) = 2
    /\ cli.pw = <<49, 178, 51, 52, 53, 54>>

\* The entries of the first n of incoming that keep marks, in their order.
RECURSIVE Kept(_, _, _)
Kept(incoming, keep, n) ==
    IF n = 0 THEN <<>>
    ELSE Kept(incoming, keep, n - 1)
             \o (IF keep[n] THEN <<incoming[n]>> ELSE <<>>)

\* C32: an import that succeeds adds or skips every entry of the adapter, so
\* added + skipped is their number; an entry is skipped exactly when
\* get_entry_exact finds its label among the entries stored at that moment,
\* those added earlier in the same import included; the list is saved after
\* the last entry.
C32_ImportCounts ==
    (cli.cmd = "import" /\ cli.exit = 0)
    => LET incoming == cli.arg
           n == Len(incoming)
           before == DecodeVault(cli.before, cli.pw).list
       IN  /\ cli.added + cli.skipped = n
           /\ \E keep \in [1..n -> BOOLEAN] :
                  /\ \A k \in 1..n :
                         keep[k] <=>
                             ExactMatch(before \o Kept(incoming, keep, k - 1),
                                        incoming[k].label) = <<>>
                  /\ cli.added = Cardinality({ k \in 1..n : keep[k] })
                  /\ entries = before \o Kept(incoming, keep, n)
           /\ DecodeVault(file, cli.pw) = [err |-> "none", list |-> entries]

\* An import of "A" and "a" into an empty vault: "A" was added and "a"
\* skipped because of it.
C32_Witness ==
    /\ cli.cmd = "import"
    /\ cli.exit = 0
    /\ DecodeVault(cli.before, cli.pw).list = <<>>
    /\ Len(cli.arg) = 2
    /\ cli.arg[1].label = <<65>>
    /\ cli.arg[2].label = <<97>>
    /\ cli.added = 1
    /\ cli.skipped = 1
    /\ StoredEntries = <<CliEntry(<<65>>)>>

\* C33: a command on a vault (add, get, import) that ends with an error
\* (vault file missing, wrong password, label already stored, entry not
\* found, import file missing) leaves the bytes of the vault file as they
\* were; of these commands only an add or an import that reaches its
\* success message writes the file.
C33_ErrorsKeepFile ==
    /\ (cli.cmd \in {"add", "get", "import"} /\ cli.exit # 0)
       => (file = cli.before /\ cli.added = 0)
    /\ cli.cmd = "get" => file = cli.before
    /\ (cli.cmd \in {"add", "import"} /\ cli.exit = 0)
       => /\ cli.msg \in {"added", "imported"}
          /\ DecodeVault(file, cli.pw) = [err |-> "none", list |-> entries]

\* get of a label the vault does not hold, under the right password, on a
\* vault with an entry: exit 1 and the file as it was.
C33_Witness ==
    /\ cli.cmd = "get"
    /\ cli.exit = 1
    /\ cli.msg = "entry_not_found"
    /\ StoredEntries # <<>>
    /\ file = cli.before

\* add under the wrong password, and add of a label already stored.
C33_WitnessAdd ==
    /\ cli.cmd = "add"
    /\ cli.exit = 1
    /\ cli.msg \in {"invalid_password", "exists"}
    /\ StoredEntries # <<>>
    /\ file = cli.before

\* C34: save encrypts under the password passed to it, not under the one the
\* instance loaded with: after load(P1) and save(P2), P2 other than P1,
\* load(P2) succeeds and returns the saved entries, and load(P1) fails with
\* InvalidToken.
C34_SavePassword ==
    (last.op = "load" /\ written.by = "save" /\ hist.resaved # <<>>
        /\ hist.resaved[1] # written.pw)
    => /\ last.pw = written.pw
          => (last.err = "none" /\ entries = written.list)
       /\ last.pw = hist.resaved[1]
          => (last.err = "InvalidToken" /\ entries = last.pre)

\* An instance loaded under one password and saved an entry under the
\* other; a load under the other password returned the entry.
C34_Witness ==
    /\ last.op = "load"
    /\ written.by = "save"
    /\ hist.resaved # <<>>
    /\ hist.resaved[1] # written.pw
    /\ last.pw = written.pw
    /\ last.err = "none"
    /\ written.list # <<>>
    /\ entries = written.list

\* After the same, a load under the password of the first load was refused.
C34_WitnessOld ==
    /\ last.op = "load"
    /\ written.by = "save"
    /\ hist.resaved # <<>>
    /\ hist.resaved[1] # written.pw
    /\ last.pw = hist.resaved[1]
    /\ last.err = "InvalidToken"

\* C35 as stated: for every row of the table, selecting it, copy-and-close
\* on it and the token refresh resolve the row key to the entry the row was
\* made for: never to another stored entry and never to none.
C35_RowResolves ==
    tui.act \in {"select", "copy_and_close", "refresh_tokens"}
    => \A i \in 1..Len(tui.arg) : tui.got[i] = <<tui.pre[tui.arg[i]]>>

\* C35: what holds: the row key resolves to the row's entry as long as no
\* stored label holds a percent escape.
C35_PlainRowsResolve ==
    (/\ tui.act \in {"select", "copy_and_close", "refresh_tokens"}
     /\ \A j \in 1..Len(tui.pre) : Unquote(tui.pre[j].label) = tui.pre[j].label)
    => \A i \in 1..Len(tui.arg) : tui.got[i] = <<tui.pre[tui.arg[i]]>>

\* The vault holds "%4a" and "%254a"; Enter on the row of "%4a" copied the
\* token of "%254a".
C35_Witness ==
    /\ tui.act = "select"
    /\ tui.pre = <<CliEntry(<<37, 52, 97>>), CliEntry(<<37, 50, 53, 52, 97>>)>>
    /\ tui.rows = <<<<37, 52, 97>>, <<37, 50, 53, 52, 97>>>>
    /\ tui.arg = <<1>>
    /\ tui.got = <<<<CliEntry(<<37, 50, 53, 52, 97>>)>>>>
    /\ tui.note = "copied"

\* The vault holds "%4a" alone; the token refresh found no entry for its row.
C35_WitnessNone ==
    /\ tui.act = "refresh_tokens"
    /\ tui.pre = <<CliEntry(<<37, 52, 97>>)>>
    /\ tui.rows = <<<<37, 52, 97>>>>
    /\ tui.got = <<<<>>>>

\* C36 as stated: a TUI edit that reports success leaves the number of
\* entries unchanged, removes the entry of the selected row, keeps every
\* other entry with its fields and in its order, and stores the updated
\* entry as the last element, in memory and in the file.
C36_EditReplacesSelected ==
    (tui.act = "edit" /\ tui.note = "updated")
    => /\ Len(entries) = Len(tui.pre)
       /\ entries = Pop(tui.pre, tui.arg[1]) \o tui.put
       /\ ReadVault(file, tui.pw) = [err |-> "none", list |-> entries]

\* C36: what holds: the entry removed is the first one whose raw label
\* equals the row key ignoring case; the count, the other entries, the place
\* of the updated entry and the save are as stated.
C36_EditReplacesFirstRaw ==
    (tui.act = "edit" /\ tui.note = "updated")
    => /\ Len(entries) = Len(tui.pre)
       /\ RemoveIndex(tui.pre, tui.pre[tui.arg[1]].label) # 0
       /\ entries = Pop(tui.pre, RemoveIndex(tui.pre, tui.pre[tui.arg[1]].label))
                        \o tui.put
       /\ ReadVault(file, tui.pw) = [err |-> "none", list |-> entries]

\* The vault held "%4a", "%4A" and "%254a"; the edit of the row of "%4A",
\* renamed to "A", reported success and removed the entry "%4a".
C36_Witness ==
    /\ tui.act = "edit"
    /\ tui.note = "updated"
    /\ tui.arg = <<2>>
    /\ tui.pre = <<CliEntry(<<37, 52, 97>>), CliEntry(<<37, 52, 65>>),
                   CliEntry(<<37, 50, 53, 52, 97>>)>>
    /\ tui.put = <<EditedEntry(<<65>>)>>
    /\ entries = <<CliEntry(<<37, 52, 65>>), CliEntry(<<37, 50, 53, 52, 97>>),
                   EditedEntry(<<65>>)>>

\* The plain case: the only entry "A" was edited under its own label and
\* replaced by the updated entry.
C36_WitnessPlain ==
    /\ tui.act = "edit"
    /\ tui.note = "updated"
    /\ tui.pre = <<CliEntry(<<65>>)>>
    /\ entries = <<EditedEntry(<<65>>)>>

\* C37 as stated: for every entry e, parse_otpauth_uri(export_to_otpauth(e))
\* equals e in label, secret, digits, algorithm and period, also when the
\* label holds percent-encoded characters.
C37_ExportImportInverse ==
    pf.fn = "export_import" => (pf.err = "none" /\ pf.out = pf.arg)

\* C37: what holds: the entry comes back when its label holds no percent
\* escape, no "?" and no "#" and does not start with "/".
C37_PlainExportImport ==
    (/\ pf.fn = "export_import"
     /\ Unquote(pf.arg[1].label) = pf.arg[1].label
     /\ Find(pf.arg[1].label, 63) = 0
     /\ Find(pf.arg[1].label, 35) = 0
     /\ LStripSlash(pf.arg[1].label) = pf.arg[1].label)
    => (pf.err = "none" /\ pf.out = pf.arg)

\* The entry labelled "%41" came back labelled "A", its other fields kept.
C37_Witness ==
    /\ pf.fn = "export_import"
    /\ pf.arg = <<TOTPEntry(<<37, 52, 49>>, <<74, 66>>, 8, SHA256, 60)>>
    /\ pf.out = <<TOTPEntry(<<65>>, <<74, 66>>, 8, SHA256, 60)>>

\* The entry labelled "a#b" came back labelled "a" with an empty secret and
\* the default digits, algorithm and period.
C37_WitnessFragment ==
    /\ pf.fn = "export_import"
    /\ pf.arg = <<TOTPEntry(<<97, 35, 98>>, <<74, 66>>, 8, SHA256, 60)>>
    /\ pf.out = <<TOTPEntry(<<97>>, <<>>, 6, SHA1, 30)>>

\* A plain entry with digits 8, SHA256 and period 60 came back unchanged.
C37_WitnessPlain ==
    /\ pf.fn = "export_import"
    /\ pf.arg = <<TOTPEntry(<<65, 32, 66>>, <<74, 66>>, 8, SHA256, 60)>>
    /\ pf.out = pf.arg


====
